---- MODULE Spec2Model ----
(***************************************************************************)
(* A model of the agent core of bitrise-ai-core.                           *)
(*                                                                         *)
(* Spec       : one Agent (pkg/core) running agent.Run: the turn loop of   *)
(*              runTurn, the concurrent tool tasks of a turn, the tool     *)
(*              belt (pkg/tool), token accounting and the timebox.         *)
(* SpecFacade : several callers of the facade Run (pkg/agent) sharing one  *)
(*              Base, whose usage total is guarded by Base.mu.             *)
(* SpecSession: one Agent from NewAgent on, with a session file.           *)
(* SpecPure   : the functions of the tool belt and of the session file     *)
(*              called on their own.                                       *)
(***************************************************************************)
EXTENDS Integers, Sequences, FiniteSets, TLC

(***************************************************************************)
(* Bounds of the model.                                                    *)
(***************************************************************************)
\* provider calls one agent.Run may make before the model stops exploring
MaxTurns == 2
\* callers of the facade Run that share one Base
NProcs == 2
\* facade Run calls the callers make in all
MaxRuns == 2
\* definitions a caller passes to NewBelt
MaxTools == 3
\* messages of a history that is saved on its own
MaxSaved == 2

(***************************************************************************)
(* llm.TokenUsage                                                          *)
(***************************************************************************)
Usage(i, o, cc, cr) ==
    [InputTokens |-> i, OutputTokens |-> o,
     CacheCreationTokens |-> cc, CacheReadTokens |-> cr]

ZeroUsage == Usage(0, 0, 0, 0)

Total(ts) ==
    ts.InputTokens + ts.OutputTokens + ts.CacheCreationTokens + ts.CacheReadTokens

\* the four += of Agent.updateUsage, before the ceiling is looked at
AddUsage(a, u) ==
    Usage(a.InputTokens + u.InputTokens,
          a.OutputTokens + u.OutputTokens,
          a.CacheCreationTokens + u.CacheCreationTokens,
          a.CacheReadTokens + u.CacheReadTokens)

\* the four -= of the facade Run: the usage of a run beyond its PreviousMeta
SubUsage(a, u) ==
    Usage(a.InputTokens - u.InputTokens,
          a.OutputTokens - u.OutputTokens,
          a.CacheCreationTokens - u.CacheCreationTokens,
          a.CacheReadTokens - u.CacheReadTokens)

\* a ceiling test that already fails at the ceiling
BudgetExceededAtCeiling(usage, maxTokenUsage) ==
    maxTokenUsage > 0 /\ Total(usage) >= maxTokenUsage

\* a ceiling test that takes every ceiling but 0 for a ceiling
BudgetExceededNonZero(usage, maxTokenUsage) ==
    maxTokenUsage # 0 /\ Total(usage) > maxTokenUsage

\* the ceiling test of Agent.updateUsage on the usage after the additions:
\* TRUE when updateUsage returns the "maximum token usage exceeded" error
BudgetExceeded(usage, maxTokenUsage) ==
    maxTokenUsage > 0 /\ Total(usage) > maxTokenUsage

\* what a provider may report for one assistant message
SmallUsage == Usage(1, 0, 0, 0)
LargeUsage == Usage(0, 1, 1, 2)
UsageChoices == {SmallUsage, LargeUsage}

(***************************************************************************)
(* llm.Message and the three llm.ContentPart variants.  The field kind     *)
(* stands for the dynamic type that runTurn's type switch looks at.        *)
(***************************************************************************)
RoleUser == "user"
RoleAssistant == "assistant"

TextContent(text) == [kind |-> "TextContent", Text |-> text]

ToolCall(id, name, input) ==
    [kind |-> "ToolCall", ID |-> id, Name |-> name, Input |-> input]

ToolResult(id, name, content, isError) ==
    [kind |-> "ToolResult", ToolCallID |-> id, ToolName |-> name,
     Content |-> content, IsError |-> isError]

Message(role, parts, usage) == [Role |-> role, Parts |-> parts, Usage |-> usage]

NewUserMessage(parts) == Message(RoleUser, parts, ZeroUsage)

SystemReminder(content) ==
    NewUserMessage(<<TextContent("<system-reminder>" \o content \o "</system-reminder>")>>)

TimeboxReminder == SystemReminder("timebox exceeded")
FinalResultReminder == SystemReminder("call FinalResult")

(***************************************************************************)
(* pkg/tool: the tool belt.  A tool.Definition is an llm.ToolDefinition    *)
(* (Name, Description, Schema) plus UseFunc.  UseFunc is one of            *)
(*   "finalResult" : Belt.finalResult, the built-in                        *)
(*   "returns"     : a caller's function that returns an output            *)
(*   "fails"       : a caller's function that returns an error             *)
(***************************************************************************)
FinalResultToolName == "FinalResult"
finalResultDescription == "The final response which ends this conversation"

Definition(name, description, schema, useFunc) ==
    [Name |-> name, Description |-> description, Schema |-> schema, UseFunc |-> useFunc]

\* the embedded llm.ToolDefinition of a tool.Definition
ToolDefinition(def) ==
    [Name |-> def.Name, Description |-> def.Description, Schema |-> def.Schema]

\* the entry NewBelt creates for the reserved name
FinalResultTool ==
    Definition(FinalResultToolName, finalResultDescription, "schema of ResultT", "finalResult")

\* the loop of NewBelt over p.Tools: tb.toolDefinitions[def.Name] = def
RECURSIVE RegisterTools(_, _)
RegisterTools(toolDefinitions, tools) ==
    IF tools = <<>> THEN toolDefinitions
    ELSE LET def == Head(tools)
         IN RegisterTools(
                [n \in (DOMAIN toolDefinitions) \cup {def.Name} |->
                    IF n = def.Name THEN def ELSE toolDefinitions[n]],
                Tail(tools))

\* the map tb.toolDefinitions after NewBelt
NewBelt(tools) ==
    RegisterTools([n \in {FinalResultToolName} |-> FinalResultTool], tools)

\* the byte order of Go strings on the names the model uses
NameOrder == <<"FinalResult", "read_file", "write_file">>
NameRank(name) == CHOOSE i \in 1..Len(NameOrder) : NameOrder[i] = name

\* the orders in which `for name := range tb.toolDefinitions` may yield the
\* names: every one of them
RangeOrders(toolDefinitions) ==
    LET n == Cardinality(DOMAIN toolDefinitions)
    IN { keys \in [1..n -> DOMAIN toolDefinitions] :
             \A i, j \in 1..n : keys[i] = keys[j] => i = j }

\* a sort that leaves the keys as they came
SortStringsLeaves(keys) == keys

\* sort.Strings
RECURSIVE SortStrings(_)
SortStrings(keys) ==
    IF Len(keys) = 0 THEN <<>>
    ELSE LET least == CHOOSE i \in 1..Len(keys) :
                          \A j \in 1..Len(keys) : NameRank(keys[i]) <= NameRank(keys[j])
         IN <<keys[least]>>
            \o SortStrings(SubSeq(keys, 1, least - 1) \o SubSeq(keys, least + 1, Len(keys)))

\* Belt.LLMDefinitions when the range over the map yields the names as ranged
LLMDefinitionsRanged(toolDefinitions, ranged) ==
    LET keys == SortStrings(ranged)
    IN [i \in 1..Len(keys) |-> ToolDefinition(toolDefinitions[keys[i]])]

\* Belt.LLMDefinitions for one order of the range
LLMDefinitions(toolDefinitions) ==
    LLMDefinitionsRanged(toolDefinitions,
                         CHOOSE ranged \in RangeOrders(toolDefinitions) : TRUE)

FinalResultDefinition(toolDefinitions) ==
    ToolDefinition(toolDefinitions[FinalResultToolName])

\* A JSON input of a tool call: well formed or not, and when well formed an
\* object given as its set of <<field, value>> pairs.
Json(wellFormed, object) == [wellFormed |-> wellFormed, object |-> object]
Payload42 == Json(TRUE, {<<"response", 42>>})
Payload7 == Json(TRUE, {<<"response", 7>>})
PayloadEmpty == Json(TRUE, {})
PayloadMalformed == Json(FALSE, {})
ToolInput == Json(TRUE, {<<"path", 1>>})

\* json.Unmarshal into finalResultPrimitiveInput[int]: an input that is not
\* JSON, or whose response is no number, is an error; a field the object
\* lacks keeps its zero value.
UnmarshalPrimitive(input) ==
    IF ~input.wellFormed THEN [ok |-> FALSE, Response |-> 0]
    ELSE IF \E pair \in input.object : pair[1] = "response"
         THEN [ok |-> TRUE,
               Response |-> (CHOOSE pair \in input.object : pair[1] = "response")[2]]
         ELSE [ok |-> TRUE, Response |-> 0]

\* What one call of a UseFunc gives: the output and error it returns, and
\* whether it called agent.SetFinalResult, and with what.
Outcome(res, isErr, errText, sets, value) ==
    [res |-> res, isErr |-> isErr, errText |-> errText, sets |-> sets, value |-> value]

\* Belt.finalResult for a primitive ResultT
finalResult(input) ==
    LET in == UnmarshalPrimitive(input)
    IN IF ~in.ok THEN Outcome("", TRUE, "unmarshal input", FALSE, 0)
       ELSE Outcome("Final result processed.", FALSE, "", TRUE, in.Response)

\* json.Unmarshal into a struct ResultT with the fields strong_language and
\* comments (example.FileReviewerResult): an input that is not JSON is an
\* error; a field the object lacks keeps its zero value and a field the
\* struct lacks is ignored
UnmarshalStruct(input) ==
    LET Field(name, zero) ==
            IF \E pair \in input.object : pair[1] = name
            THEN (CHOOSE pair \in input.object : pair[1] = name)[2]
            ELSE zero
    IN IF ~input.wellFormed
       THEN [ok |-> FALSE, value |-> [StrongLanguage |-> FALSE, Comments |-> ""]]
       ELSE [ok |-> TRUE,
             value |-> [StrongLanguage |-> Field("strong_language", FALSE),
                        Comments |-> Field("comments", "")]]

\* Belt.finalResult for a struct ResultT
finalResultStruct(input) ==
    LET in == UnmarshalStruct(input)
    IN IF ~in.ok THEN Outcome("", TRUE, "unmarshal input", FALSE, 0)
       ELSE Outcome("Final result processed.", FALSE, "", TRUE, in.value)

UseFunc(def, input) ==
    CASE def.UseFunc = "finalResult" -> finalResult(input)
      [] def.UseFunc = "returns" -> Outcome("output", FALSE, "", FALSE, 0)
      [] def.UseFunc = "fails" -> Outcome("", TRUE, "tool failed", FALSE, 0)

\* Belt.UseTool
BeltUseTool(toolDefinitions, name, input) ==
    IF name \notin DOMAIN toolDefinitions
    THEN Outcome("", TRUE, "unknown tool: " \o name, FALSE, 0)
    ELSE UseFunc(toolDefinitions[name], input)

\* the tools a caller may pass in NewAgentParams.Tools
ReadTool == Definition("read_file", "reads a file", "schema of read", "returns")
WriteTool == Definition("write_file", "writes a file", "schema of write", "fails")
CallerFinalResult == Definition(FinalResultToolName, "the caller's own", "schema of caller", "returns")

ToolLists ==
    { <<>>, <<ReadTool, WriteTool>>, <<ReadTool, CallerFinalResult>> }

(***************************************************************************)
(* State.                                                                  *)
(*                                                                         *)
(* One agent (Spec, SpecSession):                                          *)
(*   params          the core.NewAgentParams the agent was built from      *)
(*   agent           the fields of core.Agent, or what NewAgent returned   *)
(*                   in place of an agent                                  *)
(*   pc              where the agent is: "NewAgent" (built, session not    *)
(*                   yet restored), "failed" (NewAgent returned an error), *)
(*                   "Run" (agent.Run not yet called), "runTurn" (between  *)
(*                   turns), "NewMessage" (blocked in the provider call),  *)
(*                   "tools" (blocked on chToolResults), "returned"        *)
(*   toolDefinitions the local of runTurn passed to the provider           *)
(*   toolUses        the local of runTurn: the calls of this turn          *)
(*   tasks           the goroutines of this turn, one per element of       *)
(*                   toolUses: "running" (in useTool), "sending" (blocked  *)
(*                   in the send on chToolResults), "done"                 *)
(*   toolResults     the local of runTurn: the results received so far     *)
(*   ret             what agent.Run returned                               *)
(*   now             the clock read by time.Now(), which starts at instant *)
(*                   3 and counts up to the first instant past the         *)
(*                   agent's deadline, or past the latest deadline of the  *)
(*                   model for an agent without one                        *)
(*   turns           provider calls made by this agent.Run                 *)
(*   invoked         the IDs of the calls handed to toolBelt.UseTool       *)
(*   file            the file at the agent's session path                  *)
(*                                                                         *)
(* Callers of the facade (SpecFacade):                                     *)
(*   base            the fields of agent.Base; in Spec, the Base whose     *)
(*                   Timebox gave the agent its deadline                   *)
(*   proc            per caller: where its facade Run is, and its locals   *)
(*   ledger          bookkeeping of what the runs consumed and reported    *)
(*                                                                         *)
(* Functions called on their own (SpecPure):                               *)
(*   invocation      the function called, with its arguments               *)
(*   out             what the calls made so far returned                   *)
(*                                                                         *)
(* One call of NewMessage of a provider adapter (SpecRetry):               *)
(*   retry           the state of the retry loop                           *)
(*                                                                         *)
(* The message slices of facade Runs (SpecSlices):                         *)
(*   mem             the backing arrays and the slice headers of the Runs  *)
(*                                                                         *)
(* Agents that save to one session file (SpecSave):                        *)
(*   disk            the bytes of the file and the saveSession calls       *)
(***************************************************************************)
VARIABLES params, agent, pc, toolDefinitions, toolUses, tasks, toolResults,
          ret, now, turns, invoked, file, base, proc, ledger, agentCounter,
          invocation, out, retry, mem, disk

agentVars == <<params, agent, pc, toolDefinitions, toolUses, tasks, toolResults,
               ret, now, turns, invoked, file>>
facadeVars == <<base, proc, ledger, agentCounter>>
pureVars == <<invocation, out, retry, mem, disk>>
vars == <<params, agent, pc, toolDefinitions, toolUses, tasks, toolResults,
          ret, now, turns, invoked, file, base, proc, ledger, agentCounter,
          invocation, out, retry, mem, disk>>

(***************************************************************************)
(* pkg/core: construction of an agent.                                     *)
(***************************************************************************)
NewAgentParams(tools, previous, maxTokenUsage, deadline, sessionFilePath, cacheBust) ==
    [AgentID |-> previous.AgentID, Tools |-> tools, LLMMessages |-> previous.Messages,
     InitialUsage |-> previous.Usage, MaxTokenUsage |-> maxTokenUsage,
     TimeboxedUntil |-> deadline, SessionFilePath |-> sessionFilePath,
     CacheBust |-> cacheBust]

\* an identifier that is always taken from the counter
currentAgentIDCounted(agentID, counter) == [id |-> counter + 1, counter |-> counter + 1]

\* NewAgent, lines 53-56: the identifier of the agent, and agentCounter
\* after it, when agentCounter was counter
currentAgentID(agentID, counter) ==
    IF agentID <= 0
    THEN [id |-> counter + 1, counter |-> counter + 1]
    ELSE [id |-> agentID, counter |-> counter]

\* NewAgent up to its call of restoreSession: the agent of lines 53-76
\* when agentCounter was counter
NewAgent(p, counter) ==
    [agentNum |-> currentAgentID(p.AgentID, counter).id,
     llmMessages |-> p.LLMMessages,
     sessionFilePath |-> p.SessionFilePath,
     llmUsage |-> p.InitialUsage,
     maxTokenUsage |-> p.MaxTokenUsage,
     timeboxedUntil |-> p.TimeboxedUntil,
     cacheBust |-> p.CacheBust,
     toolDefinitions |-> NewBelt(p.Tools),
     finalResult |-> 0,
     finalResultSet |-> FALSE]

\* a conversation an earlier run left behind, with the usage it had reached
PriorMessages ==
    << NewUserMessage(<<TextContent("earlier prompt")>>),
       Message(RoleAssistant,
               <<ToolCall(1, FinalResultToolName, Payload7)>>, Usage(1, 0, 0, 0)),
       NewUserMessage(<<ToolResult(1, FinalResultToolName, "Final result processed.", FALSE)>>) >>

\* RunMeta of the facade
RunMeta(agentID, usage, messages) ==
    [AgentID |-> agentID, Usage |-> usage, Messages |-> messages]

\* the zero RunMeta: no PreviousMeta was given
EmptyRunMeta == RunMeta(0, ZeroUsage, <<>>)

\* PreviousMeta: none, and the RunMeta the first agent of the process returned
PriorRuns == { EmptyRunMeta, RunMeta(1, Usage(1, 0, 0, 0), PriorMessages) }

\* agentCounter when the agent of a Run with PreviousMeta previous is built
CounterBefore(p) == IF p.AgentID <= 0 THEN 0 ELSE p.AgentID

\* the token ceilings an agent is built with: none, and one
CeilingChoices == {0, 2}

\* the zero time.Time: no deadline
NoDeadline == 0

\* Base.Timebox: none, and one instant
TimeboxChoices == {0, 1}

\* the instants at which the facade Run reads the clock to set the deadline:
\* two instants before agent.Run starts its first turn, and that instant
RunCalledAt == {1, 3}

\* a facade Run that adds Base.Timebox to the clock whatever its value
TimeboxedUntilAlways(timebox, t) == t + timebox

\* facade Run, lines 51-54: the deadline of the agent it builds
TimeboxedUntil(timebox, t) == IF timebox > 0 THEN t + timebox ELSE NoDeadline

\* the deadlines an agent is built with: none, one that has passed when the
\* first turn starts, and a later one
DeadlineChoices == { TimeboxedUntil(timebox, t) : timebox \in TimeboxChoices, t \in RunCalledAt }
LatestDeadline == CHOOSE d \in DeadlineChoices : \A e \in DeadlineChoices : e <= d

\* time.Time.IsZero and time.Now().After(agent.timeboxedUntil)
timeboxExpired(a, t) ==
    a.timeboxedUntil # NoDeadline /\ t > a.timeboxedUntil

\* what agent.Run has returned: nothing yet, a *RunResult, or an error
NotReturned == [returned |-> FALSE, ok |-> FALSE, err |-> "",
                Data |-> 0, TotalUsage |-> ZeroUsage, Messages |-> <<>>]
RunResult(a) == [returned |-> TRUE, ok |-> TRUE, err |-> "",
                 Data |-> a.finalResult, TotalUsage |-> a.llmUsage,
                 Messages |-> a.llmMessages]
RunError(err) == [returned |-> TRUE, ok |-> FALSE, err |-> err,
                  Data |-> 0, TotalUsage |-> ZeroUsage, Messages |-> <<>>]

ErrProvider == "run turn: new llm message"
ErrBudget == "run turn: update usage: maximum token usage exceeded"

(***************************************************************************)
(* pkg/core: the session file, written and read with encoding/gob.         *)
(*                                                                         *)
(* file is the file at the session path: whether it exists, whether the    *)
(* process may open it and may create or truncate it, whether its content  *)
(* is a gob stream, and the stream.  The stream of a []llm.Message is the  *)
(* sequence of its encoded messages.  An encoded struct is a function from *)
(* the names of the fields that were sent, those whose value is not the    *)
(* zero value of its type, to their values; a part travels as an interface *)
(* value, with the registered name of its type.                            *)
(***************************************************************************)
File(exists, readable, writable, gob, stream) ==
    [exists |-> exists, readable |-> readable, writable |-> writable,
     gob |-> gob, stream |-> stream]

\* no file at the path, in a directory the process may create it in
NoFile == File(FALSE, FALSE, TRUE, FALSE, <<>>)

\* a registration that leaves out llm.ToolResult
registerTypesWithoutToolResult ==
    {"llm.Message", "llm.TextContent", "llm.ToolCall", "llm.TokenUsage"}

\* the types gob.Register has recorded, by name
registerTypesForSession ==
    {"llm.Message", "llm.TextContent", "llm.ToolCall", "llm.ToolResult", "llm.TokenUsage"}

GobTypeName(part) == "llm." \o part.kind

\* the fields of the structs, and whether gob sends a field: a string that
\* is not empty, a number that is not 0, a bool that is true; the Input of
\* a ToolCall is a byte string, which is never empty in this model
GobFields(kind) ==
    CASE kind = "TextContent" -> {"Text"}
      [] kind = "ToolCall" -> {"ID", "Name", "Input"}
      [] kind = "ToolResult" -> {"ToolCallID", "ToolName", "Content", "IsError"}
      [] kind = "TokenUsage" -> {"InputTokens", "OutputTokens", "CacheCreationTokens",
                                 "CacheReadTokens"}

GobSends(value, f) ==
    CASE f \in {"Text", "Name", "ToolName", "Content"} -> value[f] # ""
      [] f \in {"ID", "ToolCallID", "InputTokens", "OutputTokens",
                "CacheCreationTokens", "CacheReadTokens"} -> value[f] # 0
      [] f = "IsError" -> value[f]
      [] f = "Input" -> TRUE

gobEncodeStruct(value, kind) ==
    [f \in { g \in GobFields(kind) : GobSends(value, g) } |-> value[f]]

gobEncodePart(part) ==
    [type |-> GobTypeName(part), fields |-> gobEncodeStruct(part, part.kind)]

\* an encoded llm.Message: Role when not empty, Parts when not empty, and
\* Usage, a struct field, always
gobEncodeMessage(m) ==
    LET sent == (IF m.Role # "" THEN {"Role"} ELSE {})
                \cup (IF Len(m.Parts) > 0 THEN {"Parts"} ELSE {})
                \cup {"Usage"}
    IN [f \in sent |->
            CASE f = "Role" -> m.Role
              [] f = "Parts" -> [j \in 1..Len(m.Parts) |-> gobEncodePart(m.Parts[j])]
              [] f = "Usage" -> gobEncodeStruct(m.Usage, "TokenUsage")]

\* Encoder.Encode of a []llm.Message: an error when the type of a part is
\* not registered
gobEncode(messages) ==
    [ok |-> \A i \in 1..Len(messages) : \A j \in 1..Len(messages[i].Parts) :
                GobTypeName(messages[i].Parts[j]) \in registerTypesForSession,
     stream |-> [i \in 1..Len(messages) |-> gobEncodeMessage(messages[i])]]

\* a field of a decoded struct: the value sent, else the value the
\* destination had
GobField(enc, f, old) == IF f \in DOMAIN enc THEN enc[f] ELSE old

\* a part is decoded into a new value of the registered type
gobDecodePart(enc) ==
    CASE enc.type = "llm.TextContent" ->
             TextContent(GobField(enc.fields, "Text", ""))
      [] enc.type = "llm.ToolCall" ->
             ToolCall(GobField(enc.fields, "ID", 0), GobField(enc.fields, "Name", ""),
                      enc.fields.Input)
      [] enc.type = "llm.ToolResult" ->
             ToolResult(GobField(enc.fields, "ToolCallID", 0),
                        GobField(enc.fields, "ToolName", ""),
                        GobField(enc.fields, "Content", ""),
                        GobField(enc.fields, "IsError", FALSE))

gobDecodeMessage(enc, old) ==
    Message(GobField(enc, "Role", old.Role),
            IF "Parts" \in DOMAIN enc
            THEN [j \in 1..Len(enc.Parts) |-> gobDecodePart(enc.Parts[j])]
            ELSE old.Parts,
            Usage(GobField(enc.Usage, "InputTokens", old.Usage.InputTokens),
                  GobField(enc.Usage, "OutputTokens", old.Usage.OutputTokens),
                  GobField(enc.Usage, "CacheCreationTokens", old.Usage.CacheCreationTokens),
                  GobField(enc.Usage, "CacheReadTokens", old.Usage.CacheReadTokens)))

\* Decoder.Decode into a []llm.Message that holds dest: a destination that
\* is long enough is cut to the length of the stream and its elements are
\* decoded into, else a new slice of zero messages is; the slice is taken
\* to have no capacity beyond its length
gobDecode(f, dest) ==
    LET n == Len(f.stream)
        Old(i) == IF n <= Len(dest) THEN dest[i] ELSE Message("", <<>>, ZeroUsage)
    IN [ok |-> f.gob /\ \A i \in 1..n :
                   "Parts" \in DOMAIN f.stream[i] =>
                       \A j \in 1..Len(f.stream[i].Parts) :
                           f.stream[i].Parts[j].type \in registerTypesForSession,
        messages |-> [i \in 1..n |-> gobDecodeMessage(f.stream[i], Old(i))]]

\* a restoreSession for which a file that does not exist is an error too
restoreSessionStrict(a, f) ==
    IF a.sessionFilePath = "" THEN [agent |-> a, err |-> ""]
    ELSE IF ~f.exists \/ ~f.readable THEN [agent |-> a, err |-> "open file"]
    ELSE LET dec == gobDecode(f, a.llmMessages)
         IN IF ~dec.ok THEN [agent |-> a, err |-> "gob decode"]
            ELSE [agent |-> [a EXCEPT !.llmMessages = dec.messages], err |-> ""]

\* Agent.restoreSession: the agent and the error returned ("" for nil)
restoreSession(a, f) ==
    IF a.sessionFilePath = "" THEN [agent |-> a, err |-> ""]
    ELSE IF ~f.exists THEN [agent |-> a, err |-> ""]
    ELSE IF ~f.readable THEN [agent |-> a, err |-> "open file"]
    ELSE LET dec == gobDecode(f, a.llmMessages)
         IN IF ~dec.ok THEN [agent |-> a, err |-> "gob decode"]
            ELSE [agent |-> [a EXCEPT !.llmMessages = dec.messages], err |-> ""]

\* Agent.saveSession: the file and the error returned; ioFails is a write
\* that fails after os.Create has made or truncated the file
saveSession(a, f, ioFails) ==
    IF a.sessionFilePath = "" THEN [file |-> f, err |-> ""]
    ELSE IF ~f.writable THEN [file |-> f, err |-> "create file"]
    ELSE LET enc == gobEncode(a.llmMessages)
             readable == IF f.exists THEN f.readable ELSE TRUE
         IN IF ioFails \/ ~enc.ok
            THEN [file |-> File(TRUE, readable, TRUE, FALSE, <<>>), err |-> "gob encode"]
            ELSE [file |-> File(TRUE, readable, TRUE, TRUE, enc.stream), err |-> ""]

\* what NewAgent returns in place of an agent when it fails
NilAgent(err) == [nil |-> TRUE, err |-> err]

InitAgent ==
    /\ params \in { NewAgentParams(tools, prior, ceiling, deadline, "", FALSE) :
                        tools \in ToolLists, prior \in PriorRuns,
                        ceiling \in CeilingChoices, deadline \in DeadlineChoices }
    /\ agent = NewAgent(params, CounterBefore(params))
    /\ pc = "Run"
    /\ toolDefinitions = <<>>
    /\ toolUses = <<>>
    /\ tasks = <<>>
    /\ toolResults = <<>>
    /\ ret = NotReturned
    /\ now = 3
    /\ turns = 0
    /\ invoked = {}
    /\ file = NoFile
    /\ agentCounter = currentAgentID(params.AgentID, CounterBefore(params)).counter

(***************************************************************************)
(* pkg/core: agent.Run and runTurn.                                        *)
(***************************************************************************)
addUserPrompt(a, prompt) ==
    [a EXCEPT !.llmMessages = Append(@, NewUserMessage(<<TextContent(prompt)>>))]

addSystemReminder(a, reminder) ==
    [a EXCEPT !.llmMessages = Append(@, reminder)]

SetFinalResult(a, v) ==
    [a EXCEPT !.finalResult = v, !.finalResultSet = TRUE]

\* an updateUsage that adds the usage and never returns the error
updateUsageUnchecked(a, u) ==
    [agent |-> [a EXCEPT !.llmUsage = AddUsage(a.llmUsage, u)], err |-> FALSE]

\* Agent.updateUsage: the agent after the additions, and whether the
\* "maximum token usage exceeded" error is returned
updateUsage(a, u) ==
    LET added == AddUsage(a.llmUsage, u)
    IN [agent |-> [a EXCEPT !.llmUsage = added],
        err |-> BudgetExceeded(added, a.maxTokenUsage)]

\* a runTurn that offers every tool also past the deadline
OfferedToolsUnrestricted(a, t) == LLMDefinitions(a.toolDefinitions)

\* runTurn, lines 18-22: the tool definitions passed to the provider
OfferedTools(a, t) ==
    IF timeboxExpired(a, t)
    THEN <<FinalResultDefinition(a.toolDefinitions)>>
    ELSE LLMDefinitions(a.toolDefinitions)

\* runTurn, lines 46-56: the ToolCall parts of the message, in their order
ToolUses(parts) ==
    LET calls == SelectSeq(parts, LAMBDA part : part.kind = "ToolCall")
    IN [i \in 1..Len(calls) |->
            [ID |-> calls[i].ID, Name |-> calls[i].Name, Input |-> calls[i].Input]]

\* the assistant messages a provider may return on the turn-th call, with
\* the usage it reports; the IDs it assigns to the calls differ within the
\* conversation
MessageChoices(turn) ==
    LET id1 == 10 * turn + 1
        id2 == 10 * turn + 2
        Assistant(parts, usage) == Message(RoleAssistant, parts, usage)
    IN { Assistant(<<TextContent("thinking")>>, SmallUsage),
         Assistant(<<ToolCall(id1, FinalResultToolName, Payload42)>>, SmallUsage),
         Assistant(<<ToolCall(id1, FinalResultToolName, Payload42)>>, LargeUsage),
         Assistant(<<TextContent("thinking"), ToolCall(id1, "read_file", ToolInput),
                     ToolCall(id2, "write_file", ToolInput)>>, SmallUsage),
         Assistant(<<ToolCall(id1, "read_file", ToolInput),
                     ToolCall(id2, FinalResultToolName, Payload42)>>, LargeUsage),
         Assistant(<<ToolCall(id1, FinalResultToolName, Payload42),
                     ToolCall(id2, FinalResultToolName, Payload7)>>, SmallUsage),
         Assistant(<<ToolCall(id1, "delete_file", ToolInput),
                     ToolCall(id2, FinalResultToolName, PayloadMalformed)>>, SmallUsage) }

NoResult == ToolResult(0, "", "", FALSE)

\* a useTool that returns the error text of a failed tool as its output
useToolHidesError(a, t, time) ==
    IF timeboxExpired(a, time) /\ t.Name # FinalResultToolName
    THEN [result |-> ToolResult(t.ID, t.Name, "timebox expired, cannot use tool", TRUE),
          invoked |-> FALSE, sets |-> FALSE, value |-> 0]
    ELSE LET o == BeltUseTool(a.toolDefinitions, t.Name, t.Input)
         IN [result |-> ToolResult(t.ID, t.Name, IF o.isErr THEN o.errText ELSE o.res, FALSE),
             invoked |-> TRUE, sets |-> o.sets, value |-> o.value]

\* a useTool that has no timebox guard
useToolUnguarded(a, t, time) ==
    LET o == BeltUseTool(a.toolDefinitions, t.Name, t.Input)
    IN [result |-> IF o.isErr
                   THEN ToolResult(t.ID, t.Name, o.errText, TRUE)
                   ELSE ToolResult(t.ID, t.Name, o.res, FALSE),
        invoked |-> TRUE, sets |-> o.sets, value |-> o.value]

\* useTool: the ToolResult it returns, whether it reached toolBelt.UseTool,
\* and the SetFinalResult the tool made
useTool(a, t, time) ==
    IF timeboxExpired(a, time) /\ t.Name # FinalResultToolName
    THEN [result |-> ToolResult(t.ID, t.Name, "timebox expired, cannot use tool", TRUE),
          invoked |-> FALSE, sets |-> FALSE, value |-> 0]
    ELSE LET o == BeltUseTool(a.toolDefinitions, t.Name, t.Input)
         IN [result |-> IF o.isErr
                        THEN ToolResult(t.ID, t.Name, o.errText, TRUE)
                        ELSE ToolResult(t.ID, t.Name, o.res, FALSE),
             invoked |-> TRUE, sets |-> o.sets, value |-> o.value]

\* an end of turn that lets Run return when the turn made no tool call
EndOfTurnStopsIdle(a, results) ==
    LET bundled == IF Len(results) > 0
                   THEN [a EXCEPT !.llmMessages = Append(@, NewUserMessage(results))]
                   ELSE a
        finished == Len(results) = 0 \/ a.finalResultSet
    IN IF ~finished
       THEN [agent |-> bundled, pc |-> "runTurn", ret |-> NotReturned]
       ELSE [agent |-> bundled, pc |-> "returned", ret |-> RunResult(bundled)]

\* an end of turn that bundles the results only when there are several
EndOfTurnSeveral(a, results) ==
    LET bundled == IF Len(results) > 1
                   THEN [a EXCEPT !.llmMessages = Append(@, NewUserMessage(results))]
                   ELSE a
        finished == Len(results) = 0 \/ a.finalResultSet
    IN IF ~finished
       THEN [agent |-> bundled, pc |-> "runTurn", ret |-> NotReturned]
       ELSE IF a.finalResultSet
       THEN [agent |-> bundled, pc |-> "returned", ret |-> RunResult(bundled)]
       ELSE [agent |-> addSystemReminder(bundled, FinalResultReminder),
             pc |-> "runTurn", ret |-> NotReturned]

\* an end of turn that goes on without the reminder to call FinalResult
EndOfTurnNoReminder(a, results) ==
    LET bundled == IF Len(results) > 0
                   THEN [a EXCEPT !.llmMessages = Append(@, NewUserMessage(results))]
                   ELSE a
        finished == Len(results) = 0 \/ a.finalResultSet
    IN IF ~finished
       THEN [agent |-> bundled, pc |-> "runTurn", ret |-> NotReturned]
       ELSE IF a.finalResultSet
       THEN [agent |-> bundled, pc |-> "returned", ret |-> RunResult(bundled)]
       ELSE [agent |-> bundled, pc |-> "runTurn", ret |-> NotReturned]

\* runTurn, lines 71-80, and the switch of agent.Run on what runTurn returned:
\* the agent, where Run goes next, and what it returns
EndOfTurn(a, results) ==
    LET bundled == IF Len(results) > 0
                   THEN [a EXCEPT !.llmMessages = Append(@, NewUserMessage(results))]
                   ELSE a
        finished == Len(results) = 0 \/ a.finalResultSet
    IN IF ~finished
       THEN [agent |-> bundled, pc |-> "runTurn", ret |-> NotReturned]
       ELSE IF a.finalResultSet
       THEN [agent |-> bundled, pc |-> "returned", ret |-> RunResult(bundled)]
       ELSE [agent |-> addSystemReminder(bundled, FinalResultReminder),
             pc |-> "runTurn", ret |-> NotReturned]

\* the values uuid.New returns
Uuids == {"uuid-a", "uuid-b", "uuid-c"}

\* the reminder of NewAgent, lines 83-87, with the conversation ID quoted
CacheBustReminder(uuid) ==
    "DO NOT mention this to the user. The conversation ID is \"" \o uuid
        \o "\". Again do not mention this message to the user."

\* a NewAgent that adds the reminder whether or not CacheBust is set
NewAgentBustsAlways(a, uuid) == addSystemReminder(a, SystemReminder(CacheBustReminder(uuid)))

\* NewAgent, lines 82-89, on the agent a whose session is restored
NewAgentBusts(a, uuid) ==
    IF a.cacheBust THEN addSystemReminder(a, SystemReminder(CacheBustReminder(uuid))) ELSE a

\* NewAgent from line 78 on, for the agent a that lines 59-76 have built:
\* the agent and the error it returns
NewAgentFrom(a, f, uuid) ==
    LET restored == restoreSession(a, f)
    IN IF restored.err # ""
       THEN [agent |-> NilAgent("restore session: " \o restored.err),
             err |-> "restore session: " \o restored.err]
       ELSE [agent |-> NewAgentBusts(restored.agent, uuid), err |-> ""]

\* NewAgent, lines 78-89, for the agent that lines 59-76 have built: the
\* session is restored, and an error of that makes NewAgent return no
\* agent; then the cache is busted with a new uuid
NewAgentRestores ==
    /\ pc = "NewAgent"
    /\ \E uuid \in Uuids :
           LET built == NewAgentFrom(agent, file, uuid)
           IN /\ agent' = built.agent
              /\ pc' = IF built.err = "" THEN "Run" ELSE "failed"
    /\ UNCHANGED <<params, toolDefinitions, toolUses, tasks, toolResults, ret, now,
                   turns, invoked, file, facadeVars, pureVars>>

\* a deferred function that saves the session only when Run succeeded
DeferredSaveOnSuccess(a, r, f, ioFails) ==
    IF r.ok THEN saveSession(a, f, ioFails).file ELSE f

\* the deferred function of agent.Run, lines 101-105, run at the return of
\* r: the session is saved and the error of the save is only logged
DeferredSave(a, r, f, ioFails) == saveSession(a, f, ioFails).file

\* the file after a step of Run that leaves the agent as a and has
\* returned r, or has not returned
FileAfter(a, r) ==
    IF r.returned
    THEN \E ioFails \in BOOLEAN : file' = DeferredSave(a, r, file, ioFails)
    ELSE file' = file

\* agent.Run is called: the prompt is appended
Run ==
    /\ pc = "Run"
    /\ agent' = addUserPrompt(agent, "prompt")
    /\ pc' = "runTurn"
    /\ UNCHANGED <<params, toolDefinitions, toolUses, tasks, toolResults, ret, now,
                   turns, invoked, file, facadeVars, pureVars>>

\* runTurn up to the provider call: the tools to offer and, past the
\* deadline, the timebox reminder
RunTurnStarts ==
    /\ pc = "runTurn"
    /\ toolDefinitions' = OfferedTools(agent, now)
    /\ agent' = IF timeboxExpired(agent, now)
                THEN addSystemReminder(agent, TimeboxReminder)
                ELSE agent
    /\ turns' = turns + 1
    /\ pc' = "NewMessage"
    /\ UNCHANGED <<params, toolUses, tasks, toolResults, ret, now, invoked, file,
                   facadeVars, pureVars>>

\* the turns of an agent.Run that is followed for MaxTurns provider calls
RunTurn == turns < MaxTurns /\ RunTurnStarts

\* the provider call fails: runTurn and agent.Run return the error
NewMessageFails ==
    /\ pc = "NewMessage"
    /\ ret' = RunError(ErrProvider)
    /\ pc' = "returned"
    /\ FileAfter(agent, RunError(ErrProvider))
    /\ UNCHANGED <<params, agent, toolDefinitions, toolUses, tasks, toolResults, now,
                   turns, invoked, facadeVars, pureVars>>

\* the provider call returns a message: it is appended, its usage is added,
\* its tool calls are started; with no tool call the turn ends here
NewMessageReturns ==
    /\ pc = "NewMessage"
    /\ \E message \in MessageChoices(turns) :
        LET appended == [agent EXCEPT !.llmMessages = Append(@, message)]
            upd == updateUsage(appended, message.Usage)
            uses == ToolUses(message.Parts)
            end == EndOfTurn(upd.agent, <<>>)
        IN IF upd.err
           THEN /\ agent' = upd.agent
                /\ ret' = RunError(ErrBudget)
                /\ pc' = "returned"
                /\ FileAfter(upd.agent, RunError(ErrBudget))
                /\ UNCHANGED <<toolUses, tasks, toolResults>>
           ELSE IF uses = <<>>
           THEN /\ agent' = end.agent
                /\ ret' = end.ret
                /\ pc' = end.pc
                /\ FileAfter(end.agent, end.ret)
                /\ UNCHANGED <<toolUses, tasks, toolResults>>
           ELSE /\ agent' = upd.agent
                /\ toolUses' = uses
                /\ tasks' = [i \in 1..Len(uses) |-> [state |-> "running", result |-> NoResult]]
                /\ toolResults' = <<>>
                /\ pc' = "tools"
                /\ UNCHANGED <<ret, file>>
    /\ UNCHANGED <<params, toolDefinitions, now, turns, invoked, facadeVars, pureVars>>

\* the goroutine of the i-th call runs useTool and blocks in its send
UseTool(i) ==
    /\ pc = "tools"
    /\ tasks[i].state = "running"
    /\ LET used == useTool(agent, toolUses[i], now)
       IN /\ tasks' = [tasks EXCEPT ![i] = [state |-> "sending", result |-> used.result]]
          /\ agent' = IF used.sets THEN SetFinalResult(agent, used.value) ELSE agent
          /\ invoked' = IF used.invoked THEN invoked \cup {toolUses[i].ID} ELSE invoked
    /\ UNCHANGED <<params, pc, toolDefinitions, toolUses, toolResults, ret, now, turns,
                   file, facadeVars, pureVars>>

\* a runTurn that ends the turn with the first result it receives
ReceiveFirst(i) ==
    /\ pc = "tools"
    /\ tasks[i].state = "sending"
    /\ LET results == Append(toolResults, tasks[i].result)
           end == EndOfTurn(agent, results)
       IN /\ agent' = end.agent
          /\ pc' = end.pc
          /\ ret' = end.ret
          /\ FileAfter(end.agent, end.ret)
          /\ toolUses' = <<>>
          /\ tasks' = <<>>
          /\ toolResults' = <<>>
    /\ UNCHANGED <<params, toolDefinitions, now, turns, invoked, facadeVars, pureVars>>

\* runTurn receives the result the i-th goroutine is sending; with the last
\* result received the turn ends
Receive(i) ==
    /\ pc = "tools"
    /\ tasks[i].state = "sending"
    /\ LET results == Append(toolResults, tasks[i].result)
           end == EndOfTurn(agent, results)
       IN IF Len(results) < Len(toolUses)
          THEN /\ toolResults' = results
               /\ tasks' = [tasks EXCEPT ![i].state = "done"]
               /\ UNCHANGED <<agent, pc, ret, toolUses, file>>
          ELSE /\ agent' = end.agent
               /\ pc' = end.pc
               /\ ret' = end.ret
               /\ FileAfter(end.agent, end.ret)
               /\ toolUses' = <<>>
               /\ tasks' = <<>>
               /\ toolResults' = <<>>
    /\ UNCHANGED <<params, toolDefinitions, now, turns, invoked, facadeVars, pureVars>>

\* time passes while the run is going on: the clock is followed up to the
\* first instant past the agent's deadline, and past the latest deadline of
\* all for an agent that has none
Tick ==
    /\ pc # "returned"
    /\ now <= (IF agent.timeboxedUntil = NoDeadline
               THEN LatestDeadline ELSE agent.timeboxedUntil)
    /\ now' = now + 1
    /\ UNCHANGED <<params, agent, pc, toolDefinitions, toolUses, tasks, toolResults,
                   ret, turns, invoked, file, facadeVars, pureVars>>

(***************************************************************************)
(* pkg/agent: the facade Run and the usage total of Base.                  *)
(*                                                                         *)
(* base.mu is 0 when the mutex is free, else the caller holding it.        *)
(* proc[p] holds, for caller p:                                            *)
(*   pc        "idle" (no Run going on), "agent" (inside agent.Run,        *)
(*             between turns), "lock", "load", "store", "unlock" (inside   *)
(*             b.addUsage)                                                 *)
(*   runs      the facade Runs p has started                               *)
(*   meta      the RunMeta of p's last successful Run (its Usage)          *)
(*   prev      p.PreviousMeta of the Run going on (its Usage)              *)
(*   llmUsage, maxTokenUsage, turns   the agent of the Run going on        *)
(*   u, field, tmp   addUsage: its argument, the counter the next += is    *)
(*             on, and the value that += has loaded                        *)
(*   err       the error of p's last Run ("" for none)                     *)
(*   shared0   Total() of b.LLMUsage() as the Run read it at its start     *)
(*   consumed  the usage of the assistant messages the Run has received    *)
(*   reported  the usage the Run passed to b.addUsage                      *)
(*   chained   every Run of p so far continued from p's last RunMeta       *)
(* ledger is the sum of the usage passed to b.addUsage by the calls that   *)
(* have taken the mutex.                                                   *)
(***************************************************************************)
Procs == 1..NProcs

\* Base.MaxTokenUsage: no ceiling, and one
BaseCeilingChoices == {0, 2}

Fields == <<"InputTokens", "OutputTokens", "CacheCreationTokens", "CacheReadTokens">>

\* what a facade Run returns: the result, the RunMeta and the error
RunReturn(data, meta, err) == [Data |-> data, Meta |-> meta, err |-> err]

\* a facade Run that returns the RunMeta of the agent with the error
FacadeReturnWithMeta(res, agentNum) ==
    RunReturn(res.Data, RunMeta(agentNum, res.TotalUsage, res.Messages),
              IF res.ok THEN "" ELSE "run agent: " \o res.err)

\* the facade Run, lines 82-92, after agent.Run has returned res (a result
\* or an error) for the agent with the identifier agentNum
FacadeReturn(res, agentNum) ==
    IF ~res.ok
    THEN RunReturn(0, EmptyRunMeta, "run agent: " \o res.err)
    ELSE RunReturn(res.Data, RunMeta(agentNum, res.TotalUsage, res.Messages), "")

IdleProc ==
    [pc |-> "idle", runs |-> 0, meta |-> ZeroUsage, prev |-> ZeroUsage,
     metaID |-> 0, prevID |-> 0, agentNum |-> 0, got |-> RunReturn(0, EmptyRunMeta, ""),
     llmUsage |-> ZeroUsage, maxTokenUsage |-> 0, turns |-> 0,
     u |-> ZeroUsage, field |-> 0, tmp |-> 0, err |-> "",
     shared0 |-> 0, consumed |-> ZeroUsage, reported |-> ZeroUsage, chained |-> TRUE]

ErrNewProvider == "new provider"

InitFacade ==
    /\ base \in { [MaxTokenUsage |-> c, llmUsage |-> ZeroUsage, mu |-> 0, Timebox |-> 0] :
                      c \in BaseCeilingChoices }
    /\ proc = [p \in Procs |-> IdleProc]
    /\ ledger = ZeroUsage

\* a Run that reports the usage of PreviousMeta beyond that of the agent
AdditionalUsageReversed(totalUsage, previousUsage) == SubUsage(previousUsage, totalUsage)

\* a Run that reports the whole usage of the agent
AdditionalUsageWhole(totalUsage, previousUsage) == totalUsage

\* the facade Run, lines 74-80: the usage of this run beyond PreviousMeta
AdditionalUsage(totalUsage, previousUsage) == SubUsage(totalUsage, previousUsage)

\* the facade Runs started so far
RECURSIVE RunsOf(_)
RunsOf(callers) ==
    IF callers = {} THEN 0
    ELSE LET p == CHOOSE q \in callers : TRUE
         IN proc[p].runs + RunsOf(callers \ {p})
RunsStarted == RunsOf(Procs)

\* The callers are alike, so they are numbered in the order of their first
\* Run: caller p + 1 makes its first Run after caller p has made its first.
InTurn(p) == IF p = 1 THEN TRUE ELSE (proc[p].runs + proc[p - 1].runs) > 0

\* the facade Run, line 64: the ceiling given to the agent
AgentCeiling(b) == b.MaxTokenUsage - Total(b.llmUsage)

\* Model.NewProvider fails: Run returns its error
FacadeRunNoProvider(p) ==
    /\ proc[p].pc = "idle"
    /\ RunsStarted < MaxRuns
    /\ InTurn(p)
    /\ proc' = [proc EXCEPT ![p].runs = @ + 1, ![p].err = ErrNewProvider,
                            ![p].got = RunReturn(0, EmptyRunMeta, ErrNewProvider),
                            ![p].prev = ZeroUsage, ![p].shared0 = Total(base.llmUsage),
                            ![p].consumed = ZeroUsage, ![p].reported = ZeroUsage]
    /\ UNCHANGED <<base, ledger, agentCounter, agentVars, pureVars>>

\* the facade Run up to the first turn of agent.Run: b.LLMUsage() is read
\* under the mutex, the agent is built from PreviousMeta and the ceiling left.
\* The caller passes no PreviousMeta or the RunMeta of its last Run.
FacadeRun(p, continue) ==
    /\ proc[p].pc = "idle"
    /\ RunsStarted < MaxRuns
    /\ InTurn(p)
    /\ base.mu = 0
    /\ LET previous == IF continue THEN proc[p].meta ELSE ZeroUsage
           previousID == IF continue THEN proc[p].metaID ELSE 0
           numbered == currentAgentID(previousID, agentCounter)
       IN /\ agentCounter' = numbered.counter
          /\ proc' = [proc EXCEPT ![p].pc = "agent", ![p].runs = @ + 1,
                               ![p].prevID = previousID, ![p].agentNum = numbered.id,
                               ![p].prev = previous, ![p].llmUsage = previous,
                               ![p].maxTokenUsage = AgentCeiling(base),
                               ![p].turns = 0, ![p].err = "",
                               ![p].shared0 = Total(base.llmUsage),
                               ![p].consumed = ZeroUsage, ![p].reported = ZeroUsage,
                               ![p].chained = @ /\ previous = proc[p].meta]
    /\ UNCHANGED <<base, ledger, agentVars, pureVars>>

\* agent.Run returned an error and no result: Run returns the error without
\* calling addUsage
FacadeRunFailed(q, err) ==
    [q EXCEPT !.pc = "idle", !.err = err,
              !.got = FacadeReturn(RunError(err), q.agentNum)]

\* one turn of the agent of p's Run whose provider call fails
AgentTurnFails(p) ==
    /\ proc[p].pc = "agent"
    /\ proc' = [proc EXCEPT ![p] = FacadeRunFailed(@, ErrProvider)]
    /\ UNCHANGED <<base, ledger, agentCounter, agentVars, pureVars>>

\* one turn of the agent of p's Run: the provider's message is received and
\* its usage added; over the ceiling agent.Run fails; else the turn either
\* sets the final result, and agent.Run returns its RunResult, or it does not
AgentTurn(p, final) ==
    /\ proc[p].pc = "agent"
    /\ proc[p].turns < MaxTurns
    /\ \E usage \in UsageChoices :
        LET q == proc[p]
            upd == updateUsage(q, usage)
            spent == [upd.agent EXCEPT !.consumed = AddUsage(@, usage), !.turns = @ + 1]
        IN proc' = [proc EXCEPT ![p] =
                IF upd.err THEN FacadeRunFailed(spent, ErrBudget)
                ELSE IF final
                THEN [spent EXCEPT !.pc = "lock",
                                   !.u = AdditionalUsage(spent.llmUsage, spent.prev)]
                ELSE spent]
    /\ UNCHANGED <<base, ledger, agentCounter, agentVars, pureVars>>

\* an addUsage that does not take the mutex
AddUsageNoLock(p) ==
    /\ proc[p].pc = "lock"
    /\ proc' = [proc EXCEPT ![p].pc = "load", ![p].field = 1, ![p].reported = proc[p].u]
    /\ ledger' = AddUsage(ledger, proc[p].u)
    /\ UNCHANGED <<base, agentCounter, agentVars, pureVars>>

\* addUsage: b.mu.Lock()
AddUsageLock(p) ==
    /\ proc[p].pc = "lock"
    /\ base.mu = 0
    /\ base' = [base EXCEPT !.mu = p]
    /\ proc' = [proc EXCEPT ![p].pc = "load", ![p].field = 1, ![p].reported = proc[p].u]
    /\ ledger' = AddUsage(ledger, proc[p].u)
    /\ UNCHANGED <<agentCounter, agentVars, pureVars>>

\* addUsage: one += reads the counter
AddUsageLoad(p) ==
    /\ proc[p].pc = "load"
    /\ proc' = [proc EXCEPT ![p].pc = "store",
                            ![p].tmp = base.llmUsage[Fields[proc[p].field]]]
    /\ UNCHANGED <<base, ledger, agentCounter, agentVars, pureVars>>

\* addUsage: one += writes the counter
AddUsageStore(p) ==
    /\ proc[p].pc = "store"
    /\ LET f == Fields[proc[p].field]
       IN base' = [base EXCEPT !.llmUsage[f] = proc[p].tmp + proc[p].u[f]]
    /\ proc' = [proc EXCEPT ![p].pc = IF proc[p].field = Len(Fields) THEN "unlock" ELSE "load",
                            ![p].field = IF proc[p].field = Len(Fields) THEN 0 ELSE @ + 1,
                            ![p].tmp = 0]
    /\ UNCHANGED <<ledger, agentCounter, agentVars, pureVars>>

\* addUsage: the deferred b.mu.Unlock(); then Run returns the result and the
\* RunMeta, whose Usage is res.TotalUsage
AddUsageUnlock(p) ==
    /\ proc[p].pc = "unlock"
    /\ base' = [base EXCEPT !.mu = IF @ = p THEN 0 ELSE @]
    /\ proc' = [proc EXCEPT ![p].pc = "idle", ![p].meta = proc[p].llmUsage,
                            ![p].metaID = proc[p].agentNum,
                            ![p].got = FacadeReturn([ok |-> TRUE, Data |-> 0, Messages |-> <<>>,
                                                     TotalUsage |-> proc[p].llmUsage],
                                                    proc[p].agentNum),
                            ![p].u = ZeroUsage]
    /\ UNCHANGED <<ledger, agentCounter, agentVars, pureVars>>

\* the facade Run after agent.Run has returned, lines 74-92, for the one
\* agent of Spec: the usage beyond PreviousMeta is added to the Base when
\* there is a result, and Run returns
FacadeRunReturns ==
    /\ pc = "returned"
    /\ proc[1].runs = 0
    /\ base' = IF ret.ok
               THEN [base EXCEPT !.llmUsage =
                        AddUsage(@, AdditionalUsage(ret.TotalUsage, params.InitialUsage))]
               ELSE base
    /\ proc' = [proc EXCEPT ![1].runs = 1,
                            ![1].agentNum = agent.agentNum,
                            ![1].err = ret.err,
                            ![1].got = FacadeReturn(ret, agent.agentNum)]
    /\ UNCHANGED <<ledger, agentCounter, agentVars, pureVars>>

(***************************************************************************)
(* The functions of the tool belt on their own (SpecPure).                 *)
(*                                                                         *)
(* invocation is the function called with its arguments, out the sequence  *)
(* of what its calls so far returned.                                      *)
(***************************************************************************)
NoCall == [fn |-> "none"]

\* NewBeltParams.Tools: up to MaxTools of the caller's definitions, in any
\* order and with repetitions
ToolSequences ==
    UNION { [1..n -> {ReadTool, WriteTool, CallerFinalResult}] : n \in 0..MaxTools }

\* the payloads of a FinalResult call: the JSON objects over three fields,
\* and an input that is no JSON
FinalResultPayloads ==
    { Json(TRUE, object) :
          object \in SUBSET {<<"response", 42>>, <<"strong_language", TRUE>>,
                             <<"comments", "fine">>} }
    \cup {PayloadMalformed}

\* LLMDefinitions is called again on the belt NewBelt made of invocation.Tools
ApplyLLMDefinitions ==
    /\ invocation.fn = "LLMDefinitions"
    /\ Len(out) < 2
    /\ \E ranged \in RangeOrders(NewBelt(invocation.Tools)) :
           out' = Append(out, LLMDefinitionsRanged(NewBelt(invocation.Tools), ranged))
    /\ UNCHANGED <<invocation, retry, mem, disk, agentVars, facadeVars>>

\* the FinalResult entry of the belt is used with invocation.llmInput
ApplyFinalResult ==
    /\ invocation.fn = "finalResult"
    /\ out = <<>>
    /\ out' = <<IF invocation.structResultType
                THEN finalResultStruct(invocation.llmInput)
                ELSE finalResult(invocation.llmInput)>>
    /\ UNCHANGED <<invocation, retry, mem, disk, agentVars, facadeVars>>

\* the messages of the histories that are saved: user and assistant
\* messages with the three kinds of part, with and without usage, with
\* fields that hold the zero value of their type and fields that do not
SessionMessages ==
    { NewUserMessage(<<TextContent("prompt")>>),
      Message(RoleAssistant,
              <<TextContent(""), ToolCall(11, "read_file", ToolInput)>>, SmallUsage),
      NewUserMessage(<<ToolResult(11, "read_file", "output", FALSE),
                       ToolResult(12, "write_file", "tool failed", TRUE)>>),
      Message(RoleAssistant,
              <<ToolCall(21, FinalResultToolName, PayloadMalformed)>>, LargeUsage),
      NewUserMessage(<<ToolResult(21, FinalResultToolName, "", TRUE),
                       TextContent("<system-reminder>call FinalResult</system-reminder>")>>) }

SessionHistories == UNION { [1..n -> SessionMessages] : n \in 0..MaxSaved }

\* an agent with the history invocation.history saves its session where no
\* file was, and NewAgent, given invocation.passedIn as LLMMessages,
\* restores the session from that file
ApplySession ==
    /\ invocation.fn = "session"
    /\ out = <<>>
    /\ LET saving == NewAgent(NewAgentParams(<<>>, RunMeta(0, ZeroUsage, invocation.history), 0,
                                             NoDeadline, "session.gob", FALSE), 0)
           saved == saveSession(saving, NoFile, FALSE)
           built == NewAgent(NewAgentParams(<<>>, RunMeta(0, ZeroUsage, invocation.passedIn), 0,
                                            NoDeadline, "session.gob", FALSE), 0)
           restored == restoreSession(built, saved.file)
       IN out' = <<[saveErr |-> saved.err, err |-> restored.err,
                    messages |-> restored.agent.llmMessages]>>
    /\ UNCHANGED <<invocation, retry, mem, disk, agentVars, facadeVars>>

\* the uuids uuid.New has returned to the constructions recorded in built
Issued(built) == { built[i].uuid : i \in 1..Len(built) } \ {""}

\* NewAgent is called, once and again, with invocation.params where the
\* session file is invocation.file; uuid.New, a version 4 UUID of 122
\* random bits, returns a value it has not returned before
ApplyNewAgent ==
    /\ invocation.fn = "NewAgent"
    /\ Len(out) < 2
    /\ \E uuid \in Uuids \ Issued(out) :
           LET built == NewAgentFrom(NewAgent(invocation.params, agentCounter),
                                     invocation.file, uuid)
           IN out' = Append(out, [agent |-> built.agent, err |-> built.err,
                                  uuid |-> IF built.err = "" /\ invocation.params.CacheBust
                                           THEN uuid ELSE ""])
    /\ agentCounter' = currentAgentID(invocation.params.AgentID, agentCounter).counter
    /\ UNCHANGED <<invocation, retry, mem, disk, agentVars, base, proc, ledger>>

(***************************************************************************)
(* pkg/llm: NewMessage of the provider adapters (SpecRetry).               *)
(*                                                                         *)
(* The three adapters wrap tryNewMessage in backoff.RetryNotifyWithData    *)
(* with an exponential back-off of MaxElapsedTime and the context of the   *)
(* call.  retry holds the state of one call:                               *)
(*   provider   the adapter                                                *)
(*   pc         "attempt" (inside tryNewMessage), "backoff" (the attempt   *)
(*              has failed), "wait" (the timer of the back-off runs),      *)
(*              "loop" (the timer has fired), "returned"                   *)
(*   attempts   the calls of tryNewMessage so far                          *)
(*   elapsed    the seconds since the call of NewMessage                   *)
(*   wake       the instant at which the timer fires                       *)
(*   cancelled  the context is cancelled                                   *)
(*   late       the calls of tryNewMessage made with a cancelled context   *)
(*   message    NewMessage has returned a message                          *)
(*   err        the error NewMessage has returned ("" for nil)             *)
(***************************************************************************)
\* backoff.WithMaxElapsedTime(30*time.Second)
MaxElapsedTime == 30

Providers == {"anthropic", "openai", "gemini"}

\* the seconds one call of tryNewMessage may take
AttemptDurations == {0, 10}

\* the seconds NextBackOff of the exponential back-off may return: the
\* interval grows and is randomized
BackOffIntervals == {5, 10, 15}

\* no call of NewMessage is going on
NoRetry ==
    [provider |-> "", pc |-> "returned", attempts |-> 0, elapsed |-> 0, wake |-> 0,
     cancelled |-> FALSE, late |-> 0, message |-> FALSE, err |-> ""]

\* NewMessage is called, with a context that is cancelled already or not:
\* RetryNotifyWithData calls tryNewMessage at once
RetryInit ==
    retry \in { [provider |-> provider, pc |-> "attempt", attempts |-> 1, elapsed |-> 0,
                  wake |-> 0, cancelled |-> cancelled,
                  late |-> IF cancelled THEN 1 ELSE 0, message |-> FALSE, err |-> ""] :
                    provider \in Providers, cancelled \in BOOLEAN }

\* the context is cancelled while NewMessage is going on
Cancel ==
    /\ retry.pc # "returned"
    /\ ~retry.cancelled
    /\ retry' = [retry EXCEPT !.cancelled = TRUE]
    /\ UNCHANGED <<invocation, out, mem, disk, agentVars, facadeVars>>

\* tryNewMessage returns a message, which it does not do for a context that
\* is cancelled: NewMessage returns the message
TryNewMessageReturns ==
    /\ retry.pc = "attempt"
    /\ ~retry.cancelled
    /\ \E d \in AttemptDurations :
           retry' = [retry EXCEPT !.pc = "returned", !.message = TRUE,
                                  !.elapsed = @ + d]
    /\ UNCHANGED <<invocation, out, mem, disk, agentVars, facadeVars>>

\* tryNewMessage returns an error
TryNewMessageFails ==
    /\ retry.pc = "attempt"
    /\ \E d \in AttemptDurations :
           retry' = [retry EXCEPT !.pc = "backoff", !.elapsed = @ + d]
    /\ UNCHANGED <<invocation, out, mem, disk, agentVars, facadeVars>>

\* a NextBackOff that knows no MaxElapsedTime
NextBackOffUnbounded(r, next) ==
    IF r.cancelled
    THEN [r EXCEPT !.pc = "returned", !.err = "new message with retries: context canceled"]
    ELSE [r EXCEPT !.pc = "wait", !.wake = r.elapsed + next]

\* after a failed attempt: NextBackOff of the back-off with the context
\* stops for a cancelled context and for an interval that would end after
\* MaxElapsedTime, and NewMessage returns the error; else the timer is
\* started with the interval next
NextBackOff(r, next) ==
    IF r.cancelled
    THEN [r EXCEPT !.pc = "returned", !.err = "new message with retries: context canceled"]
    ELSE IF r.elapsed + next > MaxElapsedTime
    THEN [r EXCEPT !.pc = "returned", !.err = "new message with retries: attempt failed"]
    ELSE [r EXCEPT !.pc = "wait", !.wake = r.elapsed + next]

BackOff ==
    /\ retry.pc = "backoff"
    /\ \E next \in BackOffIntervals : retry' = NextBackOff(retry, next)
    /\ UNCHANGED <<invocation, out, mem, disk, agentVars, facadeVars>>

\* the select of the retry loop receives from ctx.Done(): NewMessage
\* returns the error of the context
WaitCancelled ==
    /\ retry.pc = "wait"
    /\ retry.cancelled
    /\ retry' = [retry EXCEPT !.pc = "returned",
                              !.err = "new message with retries: context canceled"]
    /\ UNCHANGED <<invocation, out, mem, disk, agentVars, facadeVars>>

\* the timer fires before the context is cancelled: the select of the
\* retry loop receives from the timer
WaitEnds ==
    /\ retry.pc = "wait"
    /\ ~retry.cancelled
    /\ retry' = [retry EXCEPT !.pc = "loop", !.elapsed = retry.wake]
    /\ UNCHANGED <<invocation, out, mem, disk, agentVars, facadeVars>>

\* the retry loop goes round: tryNewMessage is called again, with the
\* context as it is by now
TryAgain ==
    /\ retry.pc = "loop"
    /\ retry' = [retry EXCEPT !.pc = "attempt", !.attempts = @ + 1,
                              !.late = IF retry.cancelled THEN @ + 1 ELSE @]
    /\ UNCHANGED <<invocation, out, mem, disk, agentVars, facadeVars>>

(***************************************************************************)
(* The specifications.                                                     *)
(***************************************************************************)
(***************************************************************************)
(* Go slices of llm.Message: the histories of facade Runs that continue    *)
(* from one RunMeta (SpecSlices).                                          *)
(*                                                                         *)
(* A slice is a header [arr, len]: the backing array it points into (0 for *)
(* the nil slice) and its length; its capacity is the length of the array. *)
(* mem holds:                                                              *)
(*   arrays   the backing arrays allocated so far; a cell that was never   *)
(*            written holds NoMessage                                      *)
(*   meta     RunMeta.Messages as the first Run returned it to the caller  *)
(*   metaWas  the messages of meta when the first Run returned             *)
(*   run[r]   for the Run r ("first", and "a" and "b", which continue from *)
(*            meta):                                                       *)
(*     pc          "idle" (not called), "NewMessage" (in the provider      *)
(*                 call), "tools" (the FinalResult call is answered),      *)
(*                 "reminder" (the turn made no call), "returned",         *)
(*                 "failed"                                                *)
(*     llmMessages the header of agent.llmMessages                         *)
(*     turns       the provider calls of the Run                           *)
(*     own         the messages this Run has appended                      *)
(*     got         RunMeta.Messages as the Run returned it                 *)
(***************************************************************************)
Runs == {"first", "a", "b"}
Continuations == {"a", "b"}

NilSlice == [arr |-> 0, len |-> 0]
NoMessage == Message("", <<>>, ZeroUsage)

\* cap(s)
Cap(arrays, s) == IF s.arr = 0 THEN 0 ELSE Len(arrays[s.arr])

\* the elements s[0], ..., s[len(s)-1]
Elements(arrays, s) == [i \in 1..s.len |-> arrays[s.arr][i]]

\* the capacity of the array that append allocates for a slice of capacity
\* oldCap that has to hold needed elements: the Go runtime doubles the
\* capacity of a small slice
growslice(oldCap, needed) == IF 2 * oldCap >= needed THEN 2 * oldCap ELSE needed

\* append(s, m): within the capacity the message is written into the
\* backing array of s; else a new array is allocated, the elements of s are
\* copied and the message is written after them
append(arrays, s, m) ==
    IF s.len < Cap(arrays, s)
    THEN [arrays |-> [arrays EXCEPT ![s.arr][s.len + 1] = m],
          slice |-> [s EXCEPT !.len = @ + 1]]
    ELSE LET newCap == growslice(Cap(arrays, s), s.len + 1)
             fresh == [i \in 1..newCap |->
                          IF i <= s.len THEN arrays[s.arr][i]
                          ELSE IF i = s.len + 1 THEN m ELSE NoMessage]
         IN [arrays |-> Append(arrays, fresh),
             slice |-> [arr |-> Len(arrays) + 1, len |-> s.len + 1]]

IdleRun == [pc |-> "idle", llmMessages |-> NilSlice, turns |-> 0, own |-> <<>>, got |-> NilSlice]

NoMem == [arrays |-> <<>>, meta |-> NilSlice, metaWas |-> <<>>, run |-> [r \in Runs |-> IdleRun]]

\* RunParams.Prompt of the Run r, and what the provider answers it in a
\* turn: a text, or a FinalResult call
PromptOf(r) == NewUserMessage(<<TextContent("prompt of " \o r)>>)
AnswerOf(r) == Message(RoleAssistant, <<TextContent("answer to " \o r)>>, SmallUsage)
CallIDOf(r, turn) == 10 * turn + (CHOOSE k \in 1..3 : <<"first", "a", "b">>[k] = r)
FinalCallOf(r, turn) ==
    Message(RoleAssistant, <<ToolCall(CallIDOf(r, turn), FinalResultToolName, Payload42)>>, SmallUsage)
FinalBundleOf(r, turn) ==
    NewUserMessage(<<ToolResult(CallIDOf(r, turn), FinalResultToolName, "Final result processed.", FALSE)>>)

\* the Run r appends m to agent.llmMessages and goes on at next
Appends(r, m, next) ==
    LET grown == append(mem.arrays, mem.run[r].llmMessages, m)
    IN [mem EXCEPT !.arrays = grown.arrays,
                   !.run[r].llmMessages = grown.slice,
                   !.run[r].own = Append(@, m),
                   !.run[r].pc = next]

\* the facade Run r is called: NewAgent takes the slice of
\* PreviousMeta.Messages as agent.llmMessages (the nil slice for the first
\* Run, meta for a Run that continues) and agent.Run appends the prompt
SliceRun(r) ==
    /\ mem.run[r].pc = "idle"
    /\ r \in Continuations => mem.run["first"].pc = "returned"
    /\ LET taken == IF r \in Continuations THEN mem.meta ELSE NilSlice
           grown == append(mem.arrays, taken, PromptOf(r))
       IN mem' = [mem EXCEPT !.arrays = grown.arrays,
                             !.run[r].llmMessages = grown.slice,
                             !.run[r].own = <<PromptOf(r)>>,
                             !.run[r].pc = "NewMessage"]
    /\ UNCHANGED <<invocation, out, retry, disk, agentVars, facadeVars>>

\* the provider call of r fails: the Run returns no RunMeta
SliceNewMessageFails(r) ==
    /\ mem.run[r].pc = "NewMessage"
    /\ mem.run[r].turns < MaxTurns
    /\ mem' = [mem EXCEPT !.run[r].pc = "failed", !.run[r].turns = @ + 1]
    /\ UNCHANGED <<invocation, out, retry, disk, agentVars, facadeVars>>

\* the provider call of r returns a message, which runTurn appends
SliceNewMessageReturns(r) ==
    /\ mem.run[r].pc = "NewMessage"
    /\ mem.run[r].turns < MaxTurns
    /\ \E final \in BOOLEAN :
           LET turn == mem.run[r].turns + 1
               appended == IF final THEN Appends(r, FinalCallOf(r, turn), "tools")
                                    ELSE Appends(r, AnswerOf(r), "reminder")
           IN mem' = [appended EXCEPT !.run[r].turns = turn]
    /\ UNCHANGED <<invocation, out, retry, disk, agentVars, facadeVars>>

\* the turn of r made no tool call: agent.Run appends the reminder to call
\* FinalResult and starts the next turn
SliceReminder(r) ==
    /\ mem.run[r].pc = "reminder"
    /\ mem' = Appends(r, FinalResultReminder, "NewMessage")
    /\ UNCHANGED <<invocation, out, retry, disk, agentVars, facadeVars>>

\* the FinalResult call of r is answered: runTurn appends the tool-result
\* message, agent.Run returns agent.llmMessages and the facade returns it
\* in RunMeta.Messages; the caller keeps the RunMeta of the first Run
SliceReturns(r) ==
    /\ mem.run[r].pc = "tools"
    /\ LET appended == Appends(r, FinalBundleOf(r, mem.run[r].turns), "returned")
           returned == [appended EXCEPT !.run[r].got = appended.run[r].llmMessages]
       IN mem' = IF r = "first"
                 THEN [returned EXCEPT !.meta = returned.run[r].got,
                                       !.metaWas = Elements(returned.arrays, returned.run[r].got)]
                 ELSE returned
    /\ UNCHANGED <<invocation, out, retry, disk, agentVars, facadeVars>>

(***************************************************************************)
(* pkg/core: saveSession of agents that share one session file path.       *)
(* example/file_reviewer.go builds one agent.Base with SessionFilePath and *)
(* calls Run of it in one goroutine per file; every agent.Run defers       *)
(* saveSession. os.Create truncates the file and gives the agent a         *)
(* descriptor with an offset of its own; Encoder.Encode then writes to it  *)
(* message by message: the descriptors of the types, each with a Write of  *)
(* its own as the encoder meets the type, and the value last. The file is  *)
(* a sequence of cells, one for a descriptor and one for each llm.Message  *)
(* of a value.                                                             *)
(***************************************************************************)
Reviewers == {"a", "b"}

\* how the agent.Run of a reviewer ended: the provider failed at the first
\* or at the second call, or FinalResult was called in the first or in the
\* second turn
Outcomes == {"fails", "fails later", "final", "final later"}

\* agent.llmMessages when the Run of r returned
HistoryOf(r, outcome) ==
    CASE outcome = "fails" -> <<PromptOf(r)>>
      [] outcome = "fails later" -> <<PromptOf(r), AnswerOf(r), FinalResultReminder>>
      [] outcome = "final" -> <<PromptOf(r), FinalCallOf(r, 1), FinalBundleOf(r, 1)>>
      [] outcome = "final later" ->
             <<PromptOf(r), AnswerOf(r), FinalResultReminder,
               FinalCallOf(r, 2), FinalBundleOf(r, 2)>>

TypeCell(type) == [kind |-> "type", type |-> type, total |-> 0, index |-> 0, message |-> <<>>]
ValueCell(total, index, message) ==
    [kind |-> "value", type |-> "", total |-> total, index |-> index, message |-> message]
\* a part of the file that was never written
ZeroCell == [kind |-> "zero", type |-> "", total |-> 0, index |-> 0, message |-> <<>>]

\* the names of the types of the parts of the messages, in their order
RECURSIVE PartTypes(_)
PartTypes(messages) ==
    IF messages = <<>> THEN <<>>
    ELSE [j \in 1..Len(Head(messages).Parts) |-> GobTypeName(Head(messages).Parts[j])]
         \o PartTypes(Tail(messages))

\* a sequence without the repetitions of its elements
RECURSIVE FirstUses(_, _)
FirstUses(types, seen) ==
    IF types = <<>> THEN <<>>
    ELSE IF Head(types) \in seen THEN FirstUses(Tail(types), seen)
    ELSE <<Head(types)>> \o FirstUses(Tail(types), seen \cup {Head(types)})

\* the Writes of Encoder.Encode(agent.llmMessages) to the file, in their
\* order: the descriptors of []llm.Message and of the types under it, that
\* are the same for every history and stand here as one Write, then the
\* descriptor of each registered type when the first part of that type is
\* met, then the value
EncodeWrites(messages) ==
    LET types == FirstUses(PartTypes(messages), {})
        stream == gobEncode(messages).stream
    IN <<<<TypeCell("[]llm.Message")>>>>
       \o [k \in 1..Len(types) |-> <<TypeCell(types[k])>>]
       \o <<[i \in 1..Len(stream) |-> ValueCell(Len(stream), i, stream[i])]>>

\* File.Write of chunk at offset: the file grows when it is shorter
WriteAt(cells, offset, chunk) ==
    LET size == IF offset + Len(chunk) > Len(cells) THEN offset + Len(chunk) ELSE Len(cells)
    IN [k \in 1..size |->
            IF k > offset /\ k <= offset + Len(chunk) THEN chunk[k - offset]
            ELSE IF k <= Len(cells) THEN cells[k]
            ELSE ZeroCell]

\* the place of the first value in the file, 0 when there is none
FirstValue(cells) ==
    IF \E k \in 1..Len(cells) : cells[k].kind = "value"
    THEN CHOOSE k \in 1..Len(cells) :
             /\ cells[k].kind = "value"
             /\ \A l \in 1..(k - 1) : cells[l].kind # "value"
    ELSE 0

\* Decoder.Decode reads the descriptors up to the first value and the
\* value: the value is whole, its parts are of types described before it
Decodable(cells) ==
    LET p == FirstValue(cells)
    IN /\ p > 0
       /\ \A l \in 1..(p - 1) : cells[l].kind = "type"
       /\ cells[1] = TypeCell("[]llm.Message")
       /\ cells[p].index = 1
       /\ p + cells[p].total - 1 <= Len(cells)
       /\ \A i \in 1..cells[p].total :
              /\ cells[p + i - 1].kind = "value"
              /\ cells[p + i - 1].total = cells[p].total
              /\ cells[p + i - 1].index = i
              /\ "Parts" \in DOMAIN cells[p + i - 1].message =>
                     \A j \in 1..Len(cells[p + i - 1].message.Parts) :
                         \E l \in 1..(p - 1) :
                             cells[l].type = cells[p + i - 1].message.Parts[j].type

\* the session file that restoreSession finds
SessionFile(cells) ==
    LET p == FirstValue(cells)
    IN IF Decodable(cells)
       THEN File(TRUE, TRUE, TRUE, TRUE, [i \in 1..cells[p].total |-> cells[p + i - 1].message])
       ELSE File(TRUE, TRUE, TRUE, FALSE, <<>>)

\* no agent saves
NoDisk == [cells |-> <<>>, saver |-> [r \in Reviewers |-> [pc |-> "idle"]]]

\* agent.Run of r returns: the deferred saveSession is about to run
Saver(messages) == [pc |-> "saveSession", llmMessages |-> messages, offset |-> 0, written |-> 0]

\* line 40: os.Create makes the file empty
SaveCreate(r) ==
    /\ disk.saver[r].pc = "saveSession"
    /\ disk' = [disk EXCEPT !.cells = <<>>, !.saver[r].pc = "Encode"]
    /\ UNCHANGED <<invocation, out, retry, mem, agentVars, facadeVars>>

\* line 49: the next Write of encoder.Encode; after the last one
\* saveSession returns, the file is closed and agent.Run returns
SaveWrite(r) ==
    /\ disk.saver[r].pc = "Encode"
    /\ LET s == disk.saver[r]
           writes == EncodeWrites(s.llmMessages)
           chunk == writes[s.written + 1]
       IN disk' = [disk EXCEPT
                     !.cells = WriteAt(disk.cells, s.offset, chunk),
                     !.saver[r] = [s EXCEPT !.offset = s.offset + Len(chunk),
                                            !.written = s.written + 1,
                                            !.pc = IF s.written + 1 = Len(writes)
                                                   THEN "returned" ELSE "Encode"]]
    /\ UNCHANGED <<invocation, out, retry, mem, agentVars, facadeVars>>

Init ==
    /\ InitAgent
    /\ base \in { [MaxTokenUsage |-> 0, llmUsage |-> ZeroUsage, mu |-> 0,
                    Timebox |-> timebox] :
                      timebox \in { tb \in TimeboxChoices :
                          \E t \in RunCalledAt :
                              params.TimeboxedUntil = TimeboxedUntil(tb, t) } }
    /\ proc = [p \in Procs |-> IdleProc]
    /\ ledger = ZeroUsage
    /\ invocation = NoCall
    /\ out = <<>>
    /\ retry = NoRetry
    /\ mem = NoMem
    /\ disk = NoDisk

Next ==
    \/ Run
    \/ RunTurn
    \/ NewMessageFails
    \/ NewMessageReturns
    \/ \E i \in 1..Len(tasks) : UseTool(i)
    \/ \E i \in 1..Len(tasks) : Receive(i)
    \/ Tick
    \/ FacadeRunReturns

Spec == Init /\ [][Next]_vars

\* the ceilings of the agents whose Run is followed to its end
PositiveCeilings == {1, 3}

\* an agent with a positive ceiling, without a deadline or past it, before
\* agent.Run is called
CeilingInit ==
    /\ params \in { NewAgentParams(tools, prior, ceiling, deadline, "", FALSE) :
                        tools \in ToolLists, prior \in PriorRuns,
                        ceiling \in PositiveCeilings, deadline \in {NoDeadline, 2} }
    /\ agent = NewAgent(params, CounterBefore(params))
    /\ pc = "Run"
    /\ toolDefinitions = <<>>
    /\ toolUses = <<>>
    /\ tasks = <<>>
    /\ toolResults = <<>>
    /\ ret = NotReturned
    /\ now = 3
    /\ turns = 0
    /\ invoked = {}
    /\ file = NoFile
    /\ agentCounter = currentAgentID(params.AgentID, CounterBefore(params)).counter
    /\ base = [MaxTokenUsage |-> 0, llmUsage |-> ZeroUsage, mu |-> 0, Timebox |-> 0]
    /\ proc = [p \in Procs |-> IdleProc]
    /\ ledger = ZeroUsage
    /\ invocation = NoCall
    /\ out = <<>>
    /\ retry = NoRetry
    /\ mem = NoMem
    /\ disk = NoDisk

\* the steps of agent.Run when every provider call returns a message
CeilingNext ==
    \/ Run
    \/ RunTurnStarts
    \/ NewMessageReturns
    \/ \E i \in 1..Len(tasks) : UseTool(i)
    \/ \E i \in 1..Len(tasks) : Receive(i)

\* weak fairness of RunTurnStarts, WF_vars(RunTurnStarts), written out with
\* the condition under which the step is enabled, pc = "runTurn"
RunTurnGoesOn == []<>(pc # "runTurn") \/ []<><<RunTurnStarts>>_vars

\* agent.Run with a positive ceiling: the goroutine of Run goes on, every
\* provider call returns a message, every tool invocation returns and its
\* result is received
SpecCeiling ==
    /\ CeilingInit
    /\ [][CeilingNext]_vars
    /\ WF_vars(Run)
    /\ RunTurnGoesOn
    /\ WF_vars(NewMessageReturns)
    /\ WF_vars(\E i \in 1..Len(tasks) : UseTool(i))
    /\ WF_vars(\E i \in 1..Len(tasks) : Receive(i))

\* no facade Run has been called
SlicesInit ==
    /\ mem = NoMem
    /\ disk = NoDisk
    /\ retry = NoRetry
    /\ invocation = NoCall
    /\ out = <<>>
    /\ params = NewAgentParams(<<>>, EmptyRunMeta, 0, NoDeadline, "", FALSE)
    /\ agent = NewAgent(params, CounterBefore(params))
    /\ pc = "Run"
    /\ toolDefinitions = <<>>
    /\ toolUses = <<>>
    /\ tasks = <<>>
    /\ toolResults = <<>>
    /\ ret = NotReturned
    /\ now = 3
    /\ turns = 0
    /\ invoked = {}
    /\ file = NoFile
    /\ base = [MaxTokenUsage |-> 0, llmUsage |-> ZeroUsage, mu |-> 0, Timebox |-> 0]
    /\ proc = [p \in Procs |-> IdleProc]
    /\ ledger = ZeroUsage
    /\ agentCounter = 0

SlicesNext ==
    \E r \in Runs :
        \/ SliceRun(r)
        \/ SliceNewMessageFails(r)
        \/ SliceNewMessageReturns(r)
        \/ SliceReminder(r)
        \/ SliceReturns(r)

SpecSlices == SlicesInit /\ [][SlicesNext]_vars

\* the Runs of the reviewers have ended and their saves are about to run
SaveInit ==
    /\ disk \in { [cells |-> <<>>, saver |-> [r \in Reviewers |-> Saver(HistoryOf(r, outcome[r]))]] :
                    outcome \in [Reviewers -> Outcomes] }
    /\ mem = NoMem
    /\ retry = NoRetry
    /\ invocation = NoCall
    /\ out = <<>>
    /\ params = NewAgentParams(<<>>, EmptyRunMeta, 0, NoDeadline, "session.gob", FALSE)
    /\ agent = NewAgent(params, CounterBefore(params))
    /\ pc = "Run"
    /\ toolDefinitions = <<>>
    /\ toolUses = <<>>
    /\ tasks = <<>>
    /\ toolResults = <<>>
    /\ ret = NotReturned
    /\ now = 3
    /\ turns = 0
    /\ invoked = {}
    /\ file = NoFile
    /\ base = [MaxTokenUsage |-> 0, llmUsage |-> ZeroUsage, mu |-> 0, Timebox |-> 0]
    /\ proc = [p \in Procs |-> IdleProc]
    /\ ledger = ZeroUsage
    /\ agentCounter = 0

SaveNext == \E r \in Reviewers : SaveCreate(r) \/ SaveWrite(r)

SpecSave == SaveInit /\ [][SaveNext]_vars

FacadeInit ==
    /\ InitFacade
    /\ params = NewAgentParams(<<>>, EmptyRunMeta, 0, NoDeadline, "", FALSE)
    /\ agent = NewAgent(params, CounterBefore(params))
    /\ pc = "Run"
    /\ toolDefinitions = <<>>
    /\ toolUses = <<>>
    /\ tasks = <<>>
    /\ toolResults = <<>>
    /\ ret = NotReturned
    /\ now = 3
    /\ turns = 0
    /\ invoked = {}
    /\ file = NoFile
    /\ agentCounter = 0
    /\ invocation = NoCall
    /\ out = <<>>
    /\ retry = NoRetry
    /\ mem = NoMem
    /\ disk = NoDisk

FacadeNext ==
    \E p \in Procs :
        \/ FacadeRunNoProvider(p)
        \/ \E continue \in BOOLEAN : FacadeRun(p, continue)
        \/ AgentTurnFails(p)
        \/ \E final \in BOOLEAN : AgentTurn(p, final)
        \/ AddUsageLock(p)
        \/ AddUsageLoad(p)
        \/ AddUsageStore(p)
        \/ AddUsageUnlock(p)

SpecFacade == FacadeInit /\ [][FacadeNext]_vars

\* the session another run of the same Base saved when its first provider
\* call failed: the history is its prompt
OtherSession == << NewUserMessage(<<TextContent("other prompt")>>) >>

\* the session files an agent may find: none, none in a directory it may
\* not write to, one it may not open, one that holds no gob stream, the
\* session an earlier run saved, which it may overwrite, and the session of
\* another run, which it may not
FileChoices ==
    { NoFile,
      File(FALSE, FALSE, FALSE, FALSE, <<>>),
      File(TRUE, FALSE, TRUE, FALSE, <<>>),
      File(TRUE, TRUE, TRUE, FALSE, <<>>),
      File(TRUE, TRUE, TRUE, TRUE, gobEncode(PriorMessages).stream),
      File(TRUE, TRUE, FALSE, TRUE, gobEncode(OtherSession).stream) }

SessionPathChoices == {"", "session.gob"}

SessionInit ==
    /\ params \in { NewAgentParams(<<ReadTool, WriteTool>>, prior, ceiling, NoDeadline,
                                    path, cacheBust) :
                        prior \in PriorRuns, ceiling \in CeilingChoices,
                        path \in SessionPathChoices, cacheBust \in BOOLEAN }
    /\ file \in FileChoices
    /\ agent = NewAgent(params, CounterBefore(params))
    /\ pc = "NewAgent"
    /\ toolDefinitions = <<>>
    /\ toolUses = <<>>
    /\ tasks = <<>>
    /\ toolResults = <<>>
    /\ ret = NotReturned
    /\ now = 3
    /\ turns = 0
    /\ invoked = {}
    /\ base = [MaxTokenUsage |-> 0, llmUsage |-> ZeroUsage, mu |-> 0, Timebox |-> 0]
    /\ proc = [p \in Procs |-> IdleProc]
    /\ ledger = ZeroUsage
    /\ agentCounter = currentAgentID(params.AgentID, CounterBefore(params)).counter
    /\ invocation = NoCall
    /\ out = <<>>
    /\ retry = NoRetry
    /\ mem = NoMem
    /\ disk = NoDisk

SessionNext ==
    \/ NewAgentRestores
    \/ Run
    \/ RunTurn
    \/ NewMessageFails
    \/ NewMessageReturns
    \/ \E i \in 1..Len(tasks) : UseTool(i)
    \/ \E i \in 1..Len(tasks) : Receive(i)

SpecSession == SessionInit /\ [][SessionNext]_vars

PureInit ==
    /\ \/ invocation \in { [fn |-> "LLMDefinitions", Tools |-> tools] : tools \in ToolSequences }
       \/ invocation \in { [fn |-> "finalResult", structResultType |-> struct,
                       llmInput |-> input] :
                         struct \in BOOLEAN, input \in FinalResultPayloads }
       \/ invocation \in { [fn |-> "session", history |-> h, passedIn |-> passed] :
                               h \in SessionHistories, passed \in {<<>>, PriorMessages} }
       \/ invocation \in { [fn |-> "NewAgent", file |-> f,
                             params |-> NewAgentParams(<<>>, prior, 0, NoDeadline, path,
                                                       cacheBust)] :
                               f \in FileChoices, prior \in PriorRuns,
                               path \in SessionPathChoices, cacheBust \in BOOLEAN }
    /\ out = <<>>
    /\ retry = NoRetry
    /\ mem = NoMem
    /\ disk = NoDisk
    /\ params = NewAgentParams(<<>>, EmptyRunMeta, 0, NoDeadline, "", FALSE)
    /\ agent = NewAgent(params, CounterBefore(params))
    /\ pc = "Run"
    /\ toolDefinitions = <<>>
    /\ toolUses = <<>>
    /\ tasks = <<>>
    /\ toolResults = <<>>
    /\ ret = NotReturned
    /\ now = 3
    /\ turns = 0
    /\ invoked = {}
    /\ file = NoFile
    /\ base = [MaxTokenUsage |-> 0, llmUsage |-> ZeroUsage, mu |-> 0, Timebox |-> 0]
    /\ proc = [p \in Procs |-> IdleProc]
    /\ ledger = ZeroUsage
    /\ agentCounter = 0

PureNext ==
    \/ ApplyLLMDefinitions
    \/ ApplyFinalResult
    \/ ApplySession
    \/ ApplyNewAgent

SpecPure == PureInit /\ [][PureNext]_vars

RetryInitAll ==
    /\ RetryInit
    /\ invocation = NoCall
    /\ out = <<>>
    /\ params = NewAgentParams(<<>>, EmptyRunMeta, 0, NoDeadline, "", FALSE)
    /\ agent = NewAgent(params, CounterBefore(params))
    /\ pc = "Run"
    /\ toolDefinitions = <<>>
    /\ toolUses = <<>>
    /\ tasks = <<>>
    /\ toolResults = <<>>
    /\ ret = NotReturned
    /\ now = 3
    /\ turns = 0
    /\ invoked = {}
    /\ file = NoFile
    /\ base = [MaxTokenUsage |-> 0, llmUsage |-> ZeroUsage, mu |-> 0, Timebox |-> 0]
    /\ proc = [p \in Procs |-> IdleProc]
    /\ ledger = ZeroUsage
    /\ agentCounter = 0
    /\ mem = NoMem
    /\ disk = NoDisk

\* the steps of the retry loop, apart from the cancellation of the context
RetryLoop ==
    \/ TryNewMessageReturns
    \/ TryNewMessageFails
    \/ BackOff
    \/ WaitCancelled
    \/ WaitEnds
    \/ TryAgain

RetryNext ==
    \/ RetryLoop
    \/ Cancel

\* every call of tryNewMessage returns, and the goroutine that runs the
\* retry loop is scheduled
SpecRetry == RetryInitAll /\ [][RetryNext]_vars /\ WF_vars(RetryLoop)

(***************************************************************************)
(* Properties of one agent (Spec).                                         *)
(***************************************************************************)
history == agent.llmMessages

\* an assistant message with at least one ToolCall part
HasToolCalls(m) ==
    m.Role = RoleAssistant /\ \E k \in 1..Len(m.Parts) : m.Parts[k].kind = "ToolCall"

\* a user message made of ToolResult parts
IsToolResultMessage(m) ==
    /\ m.Role = RoleUser
    /\ Len(m.Parts) > 0
    /\ \A k \in 1..Len(m.Parts) : m.Parts[k].kind = "ToolResult"

CallsOf(m) == SelectSeq(m.Parts, LAMBDA part : part.kind = "ToolCall")

\* the bundle holds exactly one result per call of the assistant message,
\* with the call's ID and name
Answers(bundle, m) ==
    /\ Len(bundle.Parts) = Len(CallsOf(m))
    /\ \A c \in 1..Len(CallsOf(m)) :
           Cardinality({ k \in 1..Len(bundle.Parts) :
                            /\ bundle.Parts[k].ToolCallID = CallsOf(m)[c].ID
                            /\ bundle.Parts[k].ToolName = CallsOf(m)[c].Name }) = 1

CountMessages(Test(_)) == Cardinality({ i \in 1..Len(history) : Test(history[i]) })

\* the last message is the assistant message of a turn that ended in the
\* budget error
CutByBudget(i) == i = Len(history) /\ ret.err = ErrBudget

\* C1 as stated: whenever no turn is dispatching tools, the tool-result
\* messages of the history are as many as the assistant messages with tool
\* calls, and each assistant message with tool calls is followed by a
\* tool-result message with exactly one result per call, with the call's
\* identifier and name.
C1_EveryTurnBundled ==
    pc # "tools" =>
        /\ CountMessages(IsToolResultMessage) = CountMessages(HasToolCalls)
        /\ \A i \in 1..Len(history) :
               HasToolCalls(history[i]) =>
                   /\ i < Len(history)
                   /\ IsToolResultMessage(history[i + 1])
                   /\ Answers(history[i + 1], history[i])

\* C1 amended: the same for every turn that runTurn completed; the assistant
\* message of a turn that failed with the budget error is the last message of
\* the history and has no tool-result message.
C1_CompletedTurnsBundled ==
    pc # "tools" =>
        /\ CountMessages(IsToolResultMessage) + Cardinality({ i \in 1..Len(history) :
                    HasToolCalls(history[i]) /\ CutByBudget(i) })
             = CountMessages(HasToolCalls)
        /\ \A i \in 1..Len(history) :
               (HasToolCalls(history[i]) /\ ~CutByBudget(i)) =>
                   /\ i < Len(history)
                   /\ IsToolResultMessage(history[i + 1])
                   /\ Answers(history[i + 1], history[i])
        /\ \A i \in 1..Len(history) :
               IsToolResultMessage(history[i]) => i > 1 /\ HasToolCalls(history[i - 1])

\* a run with a turn without tool calls, which appended no bundle, and a
\* later turn with two calls, which appended one bundle of two results
C1_Witness ==
    /\ pc = "returned"
    /\ \E i \in 1..Len(history) :
           /\ i > Len(params.LLMMessages)
           /\ i < Len(history)
           /\ history[i].Role = RoleAssistant
           /\ ~HasToolCalls(history[i])
           /\ ~IsToolResultMessage(history[i + 1])
    /\ \E i \in 1..Len(history) :
           /\ i > Len(params.LLMMessages)
           /\ HasToolCalls(history[i])
           /\ Len(CallsOf(history[i])) = 2
           /\ i < Len(history)
           /\ Len(history[i + 1].Parts) = 2

\* C2: in every tool-result message the k-th result answers the k-th call of
\* the assistant message before it.
C2_ResultsInDispatchOrder ==
    \A i \in 1..Len(history) :
        (HasToolCalls(history[i]) /\ i < Len(history) /\ IsToolResultMessage(history[i + 1])) =>
            \A k \in 1..Len(history[i + 1].Parts) :
                /\ k <= Len(CallsOf(history[i]))
                /\ history[i + 1].Parts[k].ToolCallID = CallsOf(history[i])[k].ID

\* C3: whatever tools the caller passed, the registry entry FinalResult is
\* the built-in one, and a FinalResult call with a payload that decodes,
\* once invoked, has set the final result.
C3_FinalResultReserved ==
    /\ agent.toolDefinitions[FinalResultToolName] = FinalResultTool
    /\ FinalResultDefinition(agent.toolDefinitions) = ToolDefinition(FinalResultTool)
    /\ \A i \in 1..Len(toolUses) :
           ( /\ toolUses[i].Name = FinalResultToolName
             /\ toolUses[i].ID \in invoked
             /\ UnmarshalPrimitive(toolUses[i].Input).ok ) => agent.finalResultSet

\* the messages this run appended to the history it started from
RunMessages == SubSeq(history, Len(params.LLMMessages) + 1, Len(history))

RECURSIVE SumAssistantUsage(_)
SumAssistantUsage(messages) ==
    IF messages = <<>> THEN ZeroUsage
    ELSE IF Head(messages).Role = RoleAssistant
    THEN AddUsage(Head(messages).Usage, SumAssistantUsage(Tail(messages)))
    ELSE SumAssistantUsage(Tail(messages))

ReceivedInRun == Cardinality({ i \in 1..Len(RunMessages) : RunMessages[i].Role = RoleAssistant })

\* C7: with a ceiling C > 0 the cumulative usage is the initial usage plus
\* the usage of the assistant messages received in the run; the run has
\* failed with the budget error exactly when a turn took the total over C;
\* the failed run has returned with the offending message last in the
\* history, and none of that message's calls was invoked.
C7_UsageAndCeiling ==
    agent.maxTokenUsage > 0 =>
        /\ agent.llmUsage = AddUsage(params.InitialUsage, SumAssistantUsage(RunMessages))
        /\ (ReceivedInRun > 0 /\ ret.err # ErrBudget) =>
               Total(agent.llmUsage) <= agent.maxTokenUsage
        /\ ret.err = ErrBudget =>
               /\ Total(agent.llmUsage) > agent.maxTokenUsage
               /\ pc = "returned"
               /\ tasks = <<>>
               /\ history[Len(history)].Role = RoleAssistant
               /\ \A k \in 1..Len(history[Len(history)].Parts) :
                      history[Len(history)].Parts[k].kind = "ToolCall" =>
                          history[Len(history)].Parts[k].ID \notin invoked

\* the second turn of a run took the total over the ceiling, with tool calls
\* in its message
C7_Witness ==
    /\ agent.maxTokenUsage > 0
    /\ ret.err = ErrBudget
    /\ turns = 2
    /\ HasToolCalls(history[Len(history)])
    /\ invoked # {}

\* C10: a turn that starts past the deadline offers the provider one tool
\* definition, FinalResult, and appends one timebox reminder before the
\* call; a turn that starts before the deadline offers every registered
\* definition once, in ascending order of name, and appends nothing.
C10_Step ==
    (pc = "runTurn" /\ pc' = "NewMessage") =>
        /\ (agent.timeboxedUntil # NoDeadline /\ now > agent.timeboxedUntil) =>
               /\ Len(toolDefinitions') = 1
               /\ toolDefinitions'[1].Name = FinalResultToolName
               /\ agent'.llmMessages = Append(agent.llmMessages, TimeboxReminder)
        /\ (agent.timeboxedUntil # NoDeadline /\ now < agent.timeboxedUntil) =>
               /\ Len(toolDefinitions') = Cardinality(DOMAIN agent.toolDefinitions)
               /\ \A i \in 1..Len(toolDefinitions') :
                      /\ toolDefinitions'[i].Name \in DOMAIN agent.toolDefinitions
                      /\ toolDefinitions'[i] =
                             ToolDefinition(agent.toolDefinitions[toolDefinitions'[i].Name])
                      /\ \A j \in 1..Len(toolDefinitions') :
                             i < j => NameRank(toolDefinitions'[i].Name)
                                          < NameRank(toolDefinitions'[j].Name)
               /\ agent'.llmMessages = agent.llmMessages

C10_TimeboxTurn == [][C10_Step]_vars

\* an agent with three tools whose deadline passes during its first turn:
\* that turn offered all three and appended no reminder, the second offers
\* FinalResult alone after the one timebox reminder of the history
C10_Witness ==
    /\ pc = "NewMessage"
    /\ turns = 2
    /\ params.TimeboxedUntil = 4
    /\ Cardinality(DOMAIN agent.toolDefinitions) = 3
    /\ Len(toolDefinitions) = 1
    /\ history[Len(history)] = TimeboxReminder
    /\ Cardinality({ i \in 1..Len(history) : history[i] = TimeboxReminder }) = 1

(***************************************************************************)
(* Properties of the facade (SpecFacade).                                  *)
(***************************************************************************)
Returned(p) == proc[p].pc = "idle" /\ proc[p].runs > 0
OnlyCaller(p) == \A q \in Procs \ {p} : proc[q].runs = 0

\* C4: a Run whose agent.Run failed has passed to addUsage exactly the usage
\* of the turns of that run, so the shared total includes it.
C4_FailedRunReported ==
    \A p \in Procs :
        (Returned(p) /\ proc[p].err \in {ErrProvider, ErrBudget}) =>
            /\ proc[p].reported = proc[p].consumed
            /\ OnlyCaller(p) => Total(base.llmUsage) >= Total(proc[p].consumed)

\* C5: whenever the mutex is free the shared total is the sum of the usage of
\* the addUsage calls made so far: no update is lost and no reader, who needs
\* the mutex, sees a total some of whose counters are not yet updated.
C5_NoLostUpdate ==
    base.mu = 0 => base.llmUsage = ledger

\* two Runs that both started on the empty total have both succeeded and
\* reported usage
C5_Witness ==
    /\ \A p \in {1, 2} :
           /\ Returned(p)
           /\ proc[p].runs = 1
           /\ proc[p].err = ""
           /\ proc[p].shared0 = 0
           /\ proc[p].reported # ZeroUsage
    /\ base.llmUsage = AddUsage(proc[1].reported, proc[2].reported)

\* C6: a successful Run passes to addUsage the usage of its own turns and
\* returns a RunMeta with the usage of PreviousMeta plus that; after a chain
\* of Runs of one caller, each continuing from the RunMeta of the one before,
\* the shared total is the usage of the last RunMeta.
C6_EachTurnOnce ==
    \A p \in Procs :
        /\ proc[p].pc = "lock" => proc[p].u = proc[p].consumed
        /\ (Returned(p) /\ proc[p].err = "") =>
               /\ proc[p].reported = proc[p].consumed
               /\ proc[p].meta = AddUsage(proc[p].prev, proc[p].consumed)
        /\ (Returned(p) /\ OnlyCaller(p) /\ proc[p].chained) =>
               base.llmUsage = proc[p].meta

\* the second Run of a chain has succeeded: it continued from a RunMeta with
\* usage and consumed more
C6_Witness ==
    \E p \in Procs :
        /\ Returned(p)
        /\ OnlyCaller(p)
        /\ proc[p].chained
        /\ proc[p].runs = 2
        /\ proc[p].err = ""
        /\ proc[p].prev # ZeroUsage
        /\ proc[p].consumed # ZeroUsage

\* C8: with a ceiling C > 0 on the Base and one caller making its Runs one
\* after the other, a Run is over once a turn has taken the shared total at
\* its start plus its own consumption over C: it has failed with the budget
\* error.
C8_FailsOverCeiling ==
    base.MaxTokenUsage > 0 =>
        \A p \in Procs :
            ( /\ OnlyCaller(p)
              /\ proc[p].turns > 0
              /\ proc[p].shared0 + Total(proc[p].consumed) > base.MaxTokenUsage ) =>
                (proc[p].pc = "idle" /\ proc[p].err = ErrBudget)

\* C9: with Base.MaxTokenUsage = 0 no Run fails with the budget error.
C9_NoCeiling ==
    base.MaxTokenUsage = 0 => \A p \in Procs : proc[p].err # ErrBudget

\* with no ceiling on the Base, a Run that started on a shared total above 0,
\* so that its agent got a negative ceiling, has passed two turns
C9_Witness ==
    /\ base.MaxTokenUsage = 0
    /\ \E p \in Procs :
           /\ proc[p].pc = "agent"
           /\ proc[p].shared0 > 0
           /\ proc[p].maxTokenUsage < 0
           /\ proc[p].turns = 2

\* C11: a call of a tool other than FinalResult that is dispatched past the
\* deadline does not reach the tool belt and gets the error result "timebox
\* expired, cannot use tool"; a FinalResult call reaches the tool belt
\* before and past the deadline; the dispatch neither ends nor fails the run
C11_Step ==
    \A i \in DOMAIN tasks :
        ( /\ pc = "tools"
          /\ i \in DOMAIN tasks'
          /\ tasks[i].state = "running"
          /\ tasks'[i].state = "sending" ) =>
            LET t == toolUses[i]
                result == tasks'[i].result
            IN /\ ( t.Name # FinalResultToolName /\ timeboxExpired(agent, now) ) =>
                      /\ result = ToolResult(t.ID, t.Name,
                                             "timebox expired, cannot use tool", TRUE)
                      /\ t.ID \notin invoked'
                      /\ agent' = agent
               /\ t.Name = FinalResultToolName =>
                      /\ t.ID \in invoked'
                      /\ result.Content # "timebox expired, cannot use tool"
               /\ pc' = "tools"
               /\ ret' = NotReturned

C11_TimeboxedCall == [][C11_Step]_vars

\* past the deadline, a call of another tool has got the timebox error and
\* the FinalResult call next to it has reached the tool belt
C11_Witness ==
    /\ pc = "tools"
    /\ timeboxExpired(agent, now)
    /\ Len(tasks) = 2
    /\ tasks[1].state = "sending"
    /\ tasks[1].result.Content = "timebox expired, cannot use tool"
    /\ toolUses[1].ID \notin invoked
    /\ toolUses[2].Name = FinalResultToolName
    /\ tasks[2].state = "sending"
    /\ toolUses[2].ID \in invoked

\* C12: with Base.Timebox = 0 the agent has no deadline: whatever the clock
\* reads, every turn offers all the registered tools, no timebox reminder
\* is in the history and no tool call gets the timebox error
C12_NoTimebox ==
    base.Timebox = 0 =>
        /\ agent.timeboxedUntil = NoDeadline
        /\ turns > 0 => toolDefinitions = LLMDefinitions(agent.toolDefinitions)
        /\ \A i \in 1..Len(history) : history[i] # TimeboxReminder
        /\ \A i \in DOMAIN tasks :
                tasks[i].state # "running" =>
                    /\ tasks[i].result.Content # "timebox expired, cannot use tool"
                    /\ toolUses[i].ID \in invoked

\* with Base.Timebox = 0 and the clock past every deadline of the model, a
\* second turn has offered several tools and a call of read_file has run
C12_Witness ==
    /\ base.Timebox = 0
    /\ now > LatestDeadline
    /\ turns = 2
    /\ Len(toolDefinitions) > 1
    /\ pc = "tools"
    /\ toolUses[1].Name = "read_file"
    /\ tasks[1].state = "sending"
    /\ ~tasks[1].result.IsError

\* the call names no registered tool, or the tool registered under its name
\* returns an error for its input
FailingCall(call) ==
    IF call.Name \notin DOMAIN agent.toolDefinitions THEN TRUE
    ELSE \/ agent.toolDefinitions[call.Name].UseFunc = "fails"
         \/ /\ agent.toolDefinitions[call.Name].UseFunc = "finalResult"
            /\ ~call.Input.wellFormed

\* the text of the error of a failing call
ErrorTextOf(call) ==
    IF call.Name \notin DOMAIN agent.toolDefinitions THEN "unknown tool: " \o call.Name
    ELSE IF agent.toolDefinitions[call.Name].UseFunc = "fails" THEN "tool failed"
    ELSE "unmarshal input"

LastIsErrorBundle ==
    /\ Len(history) > Len(params.LLMMessages)
    /\ IsToolResultMessage(history[Len(history)])
    /\ \E k \in 1..Len(history[Len(history)].Parts) : history[Len(history)].Parts[k].IsError

DecodableFinalResults(m) ==
    { c \in 1..Len(CallsOf(m)) :
          /\ CallsOf(m)[c].Name = FinalResultToolName
          /\ UnmarshalPrimitive(CallsOf(m)[c].Input).ok }

\* the assistant messages of this run up to the i-th message of the history
ReceivedUpTo(i) ==
    Cardinality({ k \in (Len(params.LLMMessages) + 1)..i : history[k].Role = RoleAssistant })

\* C14: once the turn of an assistant message with a FinalResult call whose
\* payload decodes is completed (its results are bundled), Run has returned
\* successfully, Data is the decoded value of such a call, and this was the
\* last provider call; when it was the first turn, one provider call was made
C14_FinalResultEndsRun ==
    \A i \in (Len(params.LLMMessages) + 1)..Len(history) :
        ( /\ history[i].Role = RoleAssistant
          /\ DecodableFinalResults(history[i]) # {}
          /\ i < Len(history)
          /\ IsToolResultMessage(history[i + 1]) ) =>
            /\ pc = "returned"
            /\ ret.ok
            /\ \E c \in DecodableFinalResults(history[i]) :
                   ret.Data = UnmarshalPrimitive(CallsOf(history[i])[c].Input).Response
            /\ Len(history) = i + 1
            /\ turns = ReceivedUpTo(i)

\* an assistant message of this run without a tool call, whose turn passed
\* the budget check
IdleTurn(i) ==
    /\ i > Len(params.LLMMessages)
    /\ history[i].Role = RoleAssistant
    /\ ~HasToolCalls(history[i])
    /\ ~CutByBudget(i)

\* C15: Run has returned either a result, with the final-result flag set
\* by a FinalResult call of this run that reached the tool belt, or the
\* error of a failed turn; and every turn that ended without a tool call
\* appended exactly one reminder to call FinalResult, after which Run is at
\* its next turn or further
C15_ReturnsAndReminder ==
    /\ pc = "returned" <=> ret.returned
    /\ ret.returned =>
           \/ /\ ret.ok
              /\ agent.finalResultSet
              /\ ret.Data = agent.finalResult
              /\ \E i \in (Len(params.LLMMessages) + 1)..Len(history) :
                 \E c \in DecodableFinalResults(history[i]) :
                     /\ CallsOf(history[i])[c].ID \in invoked
                     /\ ret.Data = UnmarshalPrimitive(CallsOf(history[i])[c].Input).Response
           \/ /\ ~ret.ok
              /\ ret.err \in {ErrProvider, ErrBudget}
    /\ ~ret.returned => ~agent.finalResultSet \/ pc = "tools"
    /\ \A i \in 1..Len(history) :
           IdleTurn(i) =>
               /\ i < Len(history)
               /\ history[i + 1] = FinalResultReminder
               /\ i + 1 < Len(history) => history[i + 2] # FinalResultReminder
               /\ i + 1 = Len(history) =>
                      \/ pc = "runTurn" /\ ret = NotReturned
                      \/ turns > ReceivedUpTo(i)
    /\ Cardinality({ i \in 1..Len(history) : history[i] = FinalResultReminder })
         = Cardinality({ i \in 1..Len(history) : IdleTurn(i) })

\* a first turn without a tool call got the reminder, and the second turn's
\* FinalResult call made Run return its value
C15_Witness ==
    /\ ret.ok
    /\ turns = 2
    /\ ret.Data = 42
    /\ \E i \in 1..Len(history) : IdleTurn(i) /\ history[i + 1] = FinalResultReminder

(***************************************************************************)
(* Properties of the functions called on their own (SpecPure).             *)
(***************************************************************************)
\* C17: every list LLMDefinitions returned holds the definition of every
\* registered name exactly once, FinalResult among them, in ascending order
\* of name; it is the same whatever order the range over the registry
\* yields and in whatever order the caller's tools were registered under
\* distinct names; and repeated calls returned the same list
C17_DefinitionsSorted ==
    invocation.fn = "LLMDefinitions" =>
        LET belt == NewBelt(invocation.Tools)
            Distinct(tools) ==
                \A i, j \in 1..Len(tools) : tools[i].Name = tools[j].Name => i = j
            Reordered ==
                { tools \in ToolSequences :
                      /\ Len(tools) = Len(invocation.Tools)
                      /\ { tools[i] : i \in 1..Len(tools) }
                           = { invocation.Tools[i] : i \in 1..Len(invocation.Tools) } }
        IN \A k \in 1..Len(out) :
              /\ Len(out[k]) = Cardinality(DOMAIN belt)
              /\ \A name \in DOMAIN belt :
                     Cardinality({ i \in 1..Len(out[k]) : out[k][i].Name = name }) = 1
              /\ \A i \in 1..Len(out[k]) :
                     /\ out[k][i].Name \in DOMAIN belt
                     /\ out[k][i] = ToolDefinition(belt[out[k][i].Name])
              /\ \E i \in 1..Len(out[k]) : out[k][i].Name = FinalResultToolName
              /\ \A i, j \in 1..Len(out[k]) :
                     i < j => NameRank(out[k][i].Name) < NameRank(out[k][j].Name)
              /\ \A ranged \in RangeOrders(belt) :
                     LLMDefinitionsRanged(belt, ranged) = out[k]
              /\ Distinct(invocation.Tools) =>
                     \A tools \in Reordered :
                     \A ranged \in RangeOrders(NewBelt(tools)) :
                         LLMDefinitionsRanged(NewBelt(tools), ranged) = out[k]
              /\ out[k] = out[1]

\* write_file was registered before read_file, and two calls returned the
\* three definitions
C17_Witness ==
    /\ invocation.fn = "LLMDefinitions"
    /\ Len(invocation.Tools) = 2
    /\ invocation.Tools[1].Name = "write_file"
    /\ invocation.Tools[2].Name = "read_file"
    /\ Len(out) = 2
    /\ Len(out[2]) = 3

\* C16: for a struct result type, a FinalResult payload that lacks one of
\* the fields of the struct fails with an error and does not set the final
\* result, and a payload with all the fields sets each field to its value
C16_RequiredFields ==
    ( invocation.fn = "finalResult" /\ invocation.structResultType /\ Len(out) = 1
      /\ invocation.llmInput.wellFormed ) =>
        LET Has(name) == \E pair \in invocation.llmInput.object : pair[1] = name
            ValueOf(name) == (CHOOSE pair \in invocation.llmInput.object : pair[1] = name)[2]
        IN IF Has("strong_language") /\ Has("comments")
           THEN /\ ~out[1].isErr
                /\ out[1].sets
                /\ out[1].value.StrongLanguage = ValueOf("strong_language")
                /\ out[1].value.Comments = ValueOf("comments")
           ELSE /\ out[1].isErr
                /\ ~out[1].sets

\* C18: a history that was saved and then restored from the same file has
\* as many messages as the one saved, and each message has the role and,
\* in their order, the parts of the message saved, each of the same kind
\* with the same values of its fields
C18_SessionRoundTrip ==
    ( invocation.fn = "session" /\ Len(out) = 1 ) =>
        /\ out[1].saveErr = ""
        /\ out[1].err = ""
        /\ Len(out[1].messages) = Len(invocation.history)
        /\ \A i \in 1..Len(invocation.history) :
               /\ out[1].messages[i].Role = invocation.history[i].Role
               /\ Len(out[1].messages[i].Parts) = Len(invocation.history[i].Parts)
               /\ \A j \in 1..Len(invocation.history[i].Parts) :
                      out[1].messages[i].Parts[j] = invocation.history[i].Parts[j]

\* the history of an assistant message with a text and a tool call and of a
\* user message with two tool results has been saved and restored
C18_Witness ==
    /\ invocation.fn = "session"
    /\ Len(invocation.history) = 2
    /\ invocation.history[1].Role = RoleAssistant
    /\ Len(invocation.history[1].Parts) = 2
    /\ invocation.history[1].Parts[1].kind = "TextContent"
    /\ invocation.history[1].Parts[2].kind = "ToolCall"
    /\ invocation.history[2].Role = RoleUser
    /\ Len(invocation.history[2].Parts) = 2
    /\ invocation.history[2].Parts[1].kind = "ToolResult"
    /\ invocation.history[2].Parts[2].kind = "ToolResult"
    /\ invocation.history[2].Parts[2].IsError
    /\ Len(out) = 1
    /\ Len(out[1].messages) = 2

\* the history NewAgent finds for invocation.params: the one restored from
\* the session file where there is one, and the one passed in otherwise
FoundHistory ==
    restoreSession(NewAgent(invocation.params, 0), invocation.file).agent.llmMessages

RECURSIVE Progress(_)
Progress(ts) ==
    IF ts = <<>> THEN 0
    ELSE (CASE ts[1].state = "running" -> 0
            [] ts[1].state = "sending" -> 1
            [] OTHER -> 2) + Progress(Tail(ts))

\* the IDs of the results in a sequence of ToolResult parts
ResultIDs(parts) == { parts[k].ToolCallID : k \in 1..Len(parts) }

\* while the tool tasks of a turn run, some task can take a step
C23_NoDeadlock ==
    pc = "tools" =>
        /\ Len(tasks) = Len(toolUses)
        /\ Len(tasks) > 0
        /\ \E i \in 1..Len(tasks) : tasks[i].state \in {"running", "sending"}
        /\ Len(toolResults) = Cardinality({ i \in 1..Len(tasks) : tasks[i].state = "done" })

\* a step of a turn whose tool tasks run: the history is left alone and no
\* provider call is made until the last result is received; every step of a
\* task brings the turn nearer to that; and the step that receives the last
\* result appends the message with one result per task, the failed ones too
C23_Step ==
    pc = "tools" =>
        /\ pc' \in {"tools", "runTurn", "returned"}
        /\ pc' = "tools" =>
               /\ history' = history
               /\ toolUses' = toolUses
               /\ tasks' # tasks => Progress(tasks') = Progress(tasks) + 1
        /\ pc' # "tools" =>
               /\ Progress(tasks) = 2 * Len(tasks) - 1
               /\ Len(history') >= Len(history) + 1
               /\ LET bundle == history'[Len(history) + 1]
                  IN /\ IsToolResultMessage(bundle)
                     /\ Len(bundle.Parts) = Len(toolUses)
                     /\ ResultIDs(bundle.Parts)
                            = { toolUses[i].ID : i \in 1..Len(toolUses) }
                     /\ SubSeq(bundle.Parts, 1, Len(toolResults)) = toolResults

\* C23: a turn is a barrier: the tool-result message is appended and the
\* next provider call is made only after every tool task of the turn has
\* delivered its result; while tasks are outstanding one of them can always
\* step, each step brings the turn nearer to the end, so the barrier is
\* passed in every completion order; and the results of all tasks, failed
\* or not, are collected
C23_Barrier == []C23_NoDeadlock /\ [][C23_Step]_vars

\* the barrier was passed with two results, the failed one of the second
\* call received before the result of the first call, and the run goes on
C23_Witness ==
    /\ pc = "runTurn"
    /\ Len(history) > 1
    /\ IsToolResultMessage(history[Len(history)])
    /\ Len(history[Len(history)].Parts) = 2
    /\ history[Len(history)].Parts[1].IsError
    /\ ~history[Len(history)].Parts[2].IsError
    /\ HasToolCalls(history[Len(history) - 1])
    /\ CallsOf(history[Len(history) - 1])[1].ID = history[Len(history)].Parts[2].ToolCallID

\* a step of a tool task of a turn writes no agent field that another task
\* of the turn has written: when it changes the agent, the final result was
\* not set before
C24_Step ==
    ( pc = "tools" /\ pc' = "tools" /\ agent' # agent ) => ~agent.finalResultSet

\* C24: the tool tasks of a turn share no mutable state: no task writes an
\* agent field that another task of the same turn has written, so that the
\* result of the run does not depend on the order in which the tasks run
C24_NoSharedWrites == [][C24_Step]_vars

\* the step in which the provider call of a turn fails: runTurn and Run
\* return the error and no result, and the agent (its history, its usage,
\* its final result) and the set of tools invoked are as they were
C25_Step ==
    ( pc = "NewMessage" /\ ret'.returned /\ ret'.err = ErrProvider ) =>
        /\ ~ret'.ok
        /\ ret' = RunError(ErrProvider)
        /\ agent' = agent
        /\ history'[Len(history')].Role = RoleUser
        /\ invoked' = invoked
        /\ tasks' = tasks /\ toolUses' = toolUses

\* the facade Run whose agent.Run failed on the provider has returned the
\* zero result, the empty RunMeta and an error
C25_FacadeReturned ==
    ( ret.err = ErrProvider /\ proc[1].runs = 1 ) =>
        /\ proc[1].got.Data = 0
        /\ proc[1].got.Meta = EmptyRunMeta
        /\ proc[1].got.err # ""

\* C25: when the provider call of a turn fails, runTurn and agent.Run return
\* an error and no result, no assistant message is appended for the turn,
\* the usage of the agent is not changed by it, no tool is invoked, and the
\* facade Run returns the zero result, an empty RunMeta and an error
C25_ProviderFailure == []C25_FacadeReturned /\ [][C25_Step]_vars

\* the provider failed on the second turn, after a turn whose tools were
\* invoked and whose usage was added, and the facade Run has returned
C25_Witness ==
    /\ ret.err = ErrProvider
    /\ proc[1].runs = 1
    /\ turns = 2
    /\ invoked # {}
    /\ agent.llmUsage # params.InitialUsage
    /\ proc[1].got = RunReturn(0, EmptyRunMeta, "run agent: " \o ErrProvider)

\* C27: with a ceiling C > 0 on the Base, a Run has failed with the budget
\* error only if the shared total at its start plus the tokens it consumed
\* itself exceed C, also when it continued from a RunMeta with usage
C27_FailsOnlyOverCeiling ==
    base.MaxTokenUsage > 0 =>
        \A p \in Procs :
            ( Returned(p) /\ proc[p].err = ErrBudget ) =>
                proc[p].shared0 + Total(proc[p].consumed) > base.MaxTokenUsage

\* the counters of the usage u are not negative
NonNegative(u) == \A k \in 1..Len(Fields) : u[Fields[k]] >= 0

\* no counter of the usage v is below the same counter of the usage u
NotBelow(v, u) == \A k \in 1..Len(Fields) : v[Fields[k]] >= u[Fields[k]]

\* the usage of the agents, the usage the Runs have returned in their
\* RunMeta and the shared total hold no negative counter
C28_NonNegative ==
    /\ NonNegative(base.llmUsage)
    /\ \A p \in Procs : /\ NonNegative(proc[p].llmUsage)
                        /\ NonNegative(proc[p].got.Meta.Usage)
                        /\ NonNegative(proc[p].u)

\* no step lowers a counter of the shared total, and no step of a Run
\* lowers a counter of the usage of its agent, which starts at the usage of
\* PreviousMeta
C28_Step ==
    /\ NotBelow(base'.llmUsage, base.llmUsage)
    /\ \A p \in Procs :
           /\ proc[p].pc # "idle" => NotBelow(proc'[p].llmUsage, proc[p].llmUsage)
           /\ ( proc[p].pc = "idle" /\ proc'[p].pc = "agent" ) =>
                  proc'[p].llmUsage = proc'[p].prev

\* C28: with a provider that reports no negative counter, the four counters
\* of the usage of every agent and of the shared total of the Base are never
\* negative and never decrease, in every interleaving of the Runs, those
\* continued from a RunMeta included
C28_UsageMonotone == []C28_NonNegative /\ [][C28_Step]_vars

\* a Run continued from a RunMeta with usage has consumed tokens and has
\* returned, and the shared total holds the usage of that RunMeta and of
\* this Run
C28_Witness ==
    \E p \in Procs :
        /\ Returned(p)
        /\ proc[p].err = ""
        /\ proc[p].prev # ZeroUsage
        /\ proc[p].consumed # ZeroUsage
        /\ proc[p].got.Meta.Usage = AddUsage(proc[p].prev, proc[p].consumed)
        /\ base.llmUsage = AddUsage(proc[p].prev, proc[p].consumed)

\* the identifiers of the agents built so far are positive and not above
\* agentCounter, and two agents built without PreviousMeta that run at the
\* same time have different identifiers
C29_Distinct ==
    /\ agentCounter >= 0
    /\ \A p \in Procs :
           /\ proc[p].agentNum <= agentCounter
           /\ proc[p].metaID <= agentCounter
           /\ proc[p].pc # "idle" => proc[p].agentNum > 0
           /\ proc[p].got.Meta.AgentID \in {0, proc[p].metaID}
    /\ \A p, q \in Procs :
           ( p # q /\ proc[p].pc # "idle" /\ proc[q].pc # "idle"
             /\ proc[p].prevID <= 0 /\ proc[q].prevID <= 0 ) =>
               proc[p].agentNum # proc[q].agentNum

\* the step that builds an agent: without a previous identifier the agent
\* gets the next value of agentCounter, which is above every identifier
\* given before; with one it keeps it and agentCounter is left alone; and
\* no other step changes agentCounter or the identifier of an agent
C29_Step ==
    \A p \in Procs :
        IF proc[p].pc = "idle" /\ proc'[p].pc = "agent"
        THEN IF proc'[p].prevID <= 0
             THEN /\ agentCounter' = agentCounter + 1
                  /\ proc'[p].agentNum = agentCounter'
                  /\ \A q \in Procs : proc'[p].agentNum > proc[q].agentNum
             ELSE /\ agentCounter' = agentCounter
                  /\ proc'[p].agentNum = proc'[p].prevID
                  /\ proc'[p].prevID = proc[p].metaID
        ELSE /\ proc'[p].agentNum = proc[p].agentNum
             /\ (\A q \in Procs : ~(proc[q].pc = "idle" /\ proc'[q].pc = "agent"))
                    => agentCounter' = agentCounter

\* C29: agents built without a previous identifier get pairwise distinct,
\* positive identifiers that increase strictly in the order of allocation,
\* also when the Runs that build them overlap; an agent built with a
\* previous identifier keeps it and does not advance the counter
C29_AgentIDs == []C29_Distinct /\ [][C29_Step]_vars

\* two callers are inside their Runs at the same time, with the agents 1
\* and 2
C29_Witness ==
    \E p, q \in Procs :
        /\ proc[p].pc = "agent" /\ proc[q].pc = "agent"
        /\ proc[p].agentNum = 1 /\ proc[q].agentNum = 2
        /\ agentCounter = 2

\* the messages a step has added at the end of the history
Added == SubSeq(history', Len(history) + 1, Len(history'))

\* a step of agent.Run leaves the messages of the history as they are, in
\* their places, and adds at the end the prompt, or a reminder, or the
\* assistant message (followed, in a turn without tool calls that does not
\* end the run, by the reminder to call FinalResult), or the tool results
C26_Step ==
    /\ Len(history') >= Len(history)
    /\ SubSeq(history', 1, Len(history)) = history
    /\ \/ Added = <<>>
       \/ /\ pc = "Run"
          /\ Added = <<NewUserMessage(<<TextContent("prompt")>>)>>
       \/ /\ pc = "runTurn"
          /\ Added = <<TimeboxReminder>>
       \/ /\ pc = "NewMessage"
          /\ Added[1].Role = RoleAssistant
          /\ \/ Len(Added) = 1
             \/ Len(Added) = 2 /\ Added[2] = FinalResultReminder
                               /\ ~HasToolCalls(Added[1])
       \/ /\ pc = "tools"
          /\ Len(Added) = 1
          /\ IsToolResultMessage(Added[1])

\* the steps of one agent whose history no other Run shares: every step
\* leaves the messages it finds unchanged and in their order and adds its
\* message (prompt, reminder, assistant message, tool results) at the end
C26_AppendOnly == [][C26_Step]_vars

\* the calls of a message other than its FinalResult calls
OtherCalls(m) ==
    { c \in 1..Len(CallsOf(m)) : CallsOf(m)[c].Name # FinalResultToolName }

\* an assistant message of this run with a FinalResult call whose payload
\* decodes and with calls of other tools
FinalResultWithOthers(i) ==
    /\ i > Len(params.LLMMessages)
    /\ history[i].Role = RoleAssistant
    /\ DecodableFinalResults(history[i]) # {}
    /\ OtherCalls(history[i]) # {}

\* C31: when an assistant message holds a FinalResult call together with
\* calls of other tools, Run does not return while the calls are under way;
\* once the turn is completed every other call has been handed to useTool
\* (and, with no timebox, to its tool), the message after it is the
\* tool-result message with one result per call, the FinalResult result
\* among them, and Run has returned successfully a history that ends with
\* that message
C31_FinalResultWithOthers ==
    \A i \in 1..Len(history) :
        FinalResultWithOthers(i) =>
            IF i = Len(history)
            THEN pc = "returned" => ~ret.ok
            ELSE /\ Len(history) = i + 1
                 /\ IsToolResultMessage(history[i + 1])
                 /\ Answers(history[i + 1], history[i])
                 /\ params.TimeboxedUntil = NoDeadline =>
                        \A c \in OtherCalls(history[i]) : CallsOf(history[i])[c].ID \in invoked
                 /\ pc = "returned"
                 /\ ret.ok
                 /\ ret.Messages = history
                 /\ IsToolResultMessage(ret.Messages[Len(ret.Messages)])

(***************************************************************************)
(* Properties of agent.Run with a positive ceiling (SpecCeiling).          *)
(***************************************************************************)
\* the provider calls after which the usage of an agent that started at
\* initial is over the ceiling at the latest, when each call adds at least 1
CallsToCeiling(ceiling, initial) ==
    IF Total(initial) > ceiling THEN 1 ELSE ceiling - Total(initial) + 1

\* the assistant messages received in this run
ReceivedMessages ==
    { i \in (Len(params.LLMMessages) + 1)..Len(history) : history[i].Role = RoleAssistant }

\* the agent has a positive ceiling and every message it received reports a
\* usage of at least 1; its usage has grown by at least 1 with each provider
\* call that returned; it has made no more provider calls than fit under
\* the ceiling and one more; and Run has returned, if it has, with a final
\* result or with the budget error
C33_Bounded ==
    /\ agent.maxTokenUsage > 0
    /\ \A i \in ReceivedMessages : Total(history[i].Usage) >= 1
    /\ Total(agent.llmUsage) >= Total(params.InitialUsage) + Cardinality(ReceivedMessages)
    /\ turns <= CallsToCeiling(agent.maxTokenUsage, params.InitialUsage)
    /\ pc = "returned" =>
          \/ ret.ok /\ agent.finalResultSet
          \/ ~ret.ok /\ ret.err = ErrBudget /\ Total(agent.llmUsage) > agent.maxTokenUsage

\* C33: agent.Run of an agent with a positive ceiling returns, with a final
\* result or with the budget error, after a number of provider calls that
\* the ceiling bounds, when every provider call returns a message with a
\* usage of at least 1 and every tool invocation returns, whatever the
\* messages are
C33_Terminates == []C33_Bounded /\ <>(pc = "returned")

\* a model that never calls FinalResult: the Run of an agent with ceiling 3
\* that started at no usage has returned the budget error in its fourth
\* turn
C33_Witness ==
    /\ pc = "returned"
    /\ ret.err = ErrBudget
    /\ params.MaxTokenUsage = 3
    /\ params.InitialUsage = ZeroUsage
    /\ turns = 4
    /\ Cardinality(ReceivedMessages) = 4
    /\ \A i \in ReceivedMessages :
           \A c \in 1..Len(CallsOf(history[i])) : CallsOf(history[i])[c].Name # FinalResultToolName

(***************************************************************************)
(* Properties of facade Runs that continue from one RunMeta (SpecSlices).  *)
(***************************************************************************)
\* the messages of the RunMeta the caller holds are those it held when the
\* first Run returned
MetaUnchanged ==
    mem.run["first"].pc = "returned" => Elements(mem.arrays, mem.meta) = mem.metaWas

\* the history that the Run r has returned is the messages of the RunMeta
\* followed by the messages r has appended
OwnHistory(r) ==
    mem.run[r].pc = "returned" =>
        Elements(mem.arrays, mem.run[r].got) = mem.metaWas \o mem.run[r].own

\* the history of the Run r, which is going on, is after the step what it
\* was before, followed by what the step has added
HistoryKept(r) ==
    LET before == Elements(mem.arrays, mem.run[r].llmMessages)
        after == Elements(mem'.arrays, mem'.run[r].llmMessages)
    IN mem.run[r].pc \in {"NewMessage", "tools", "reminder"} =>
           /\ Len(after) >= Len(before)
           /\ SubSeq(after, 1, Len(before)) = before

\* C26: during agent.Run the history is append-only: no step, of this Run
\* or of another, changes, reorders or removes a message that is in the
\* history of a Run that is going on, so that its history at an earlier
\* point is a prefix of its history at a later one
C26_HistoryAppendOnly == [][\A r \in Runs : HistoryKept(r)]_vars

\* C34: two facade Runs that continue from the same RunMeta, one after the
\* other or in parallel, leave the messages of the caller's RunMeta
\* unchanged, and the history each of them has returned is, from then on,
\* the messages of the RunMeta followed only by the messages that this Run
\* has appended
C34_NoInterference == MetaUnchanged /\ \A r \in Continuations : OwnHistory(r)

(***************************************************************************)
(* Properties of agents that save to one session file (SpecSave).          *)
(***************************************************************************)
AllReturned == \A r \in Reviewers : disk.saver[r].pc = "returned"

\* what restoreSession of a new agent with the path gives
Restored == restoreSession(agent, SessionFile(disk.cells))

\* C35: once all the agents that share the session file path have returned,
\* a restore from the path succeeds and gives the whole final history of
\* one of them
C35_OneWholeHistory ==
    AllReturned =>
        /\ Restored.err = ""
        /\ \E r \in Reviewers : Restored.agent.llmMessages = disk.saver[r].llmMessages

(***************************************************************************)
(* Properties of NewMessage of the provider adapters (SpecRetry).          *)
(***************************************************************************)
\* the shortest interval of the back-off
MinInterval == CHOOSE i \in BackOffIntervals : \A j \in BackOffIntervals : i <= j

\* a step that calls tryNewMessage finds the context not cancelled
C30_OriginalStep == retry'.attempts > retry.attempts => ~retry.cancelled

\* C30 as stated: once the context is cancelled, no further attempt is
\* started
C30_NoAttemptOnceCancelled == [][C30_OriginalStep]_vars

\* a call of NewMessage has made at least one attempt and at most as many
\* as the retry budget has room for; at most one of them was started with a
\* cancelled context; a timer that runs ends within the retry budget; and
\* NewMessage has returned either a message or an error
C30_Bounded ==
    /\ retry.attempts >= 1
    /\ retry.attempts <= MaxElapsedTime \div MinInterval + 1
    /\ retry.late <= 1
    /\ retry.pc \in {"wait", "loop"} =>
           /\ retry.wake <= MaxElapsedTime
           /\ retry.elapsed <= retry.wake
    /\ retry.pc = "returned" => (retry.message <=> retry.err = "")
    /\ retry.pc # "returned" => ~retry.message /\ retry.err = ""

\* the steps of a call of NewMessage: the message of the first attempt that
\* succeeds is returned; the timer of a retry is started only after a failed
\* attempt, with a context that is not cancelled, for a positive interval
\* that ends within the retry budget; a cancellation ends the wait with an
\* error; a retry is started only by the timer; and after an attempt made
\* with a cancelled context NewMessage only returns the error
C30_Step ==
    /\ retry'.message => ( retry.pc = "attempt" /\ retry'.pc = "returned" )
    /\ ( retry.pc = "backoff" /\ retry'.pc = "wait" ) =>
           /\ ~retry.cancelled
           /\ retry'.wake > retry.elapsed
           /\ retry'.wake <= MaxElapsedTime
    /\ ( retry.pc = "backoff" /\ retry'.pc = "returned" ) =>
           /\ retry'.err # ""
           /\ retry.cancelled \/ retry.elapsed + MinInterval > MaxElapsedTime
                  \/ \E next \in BackOffIntervals : retry.elapsed + next > MaxElapsedTime
    /\ ( retry.pc = "wait" /\ retry.cancelled /\ retry'.pc # "wait" ) =>
           ( retry'.pc = "returned" /\ retry'.err # "" /\ retry'.attempts = retry.attempts )
    /\ retry'.attempts > retry.attempts =>
           /\ retry.pc = "loop"
           /\ retry'.attempts = retry.attempts + 1
           /\ retry.elapsed <= MaxElapsedTime
    /\ ( retry.late = 1 /\ retry.pc # "returned" ) =>
           /\ retry'.attempts = retry.attempts
           /\ retry'.pc \in {"attempt", "backoff", "returned"}
           /\ ~retry'.message

\* C30: NewMessage of every provider adapter returns in the end: it retries
\* a failed attempt after a back-off only while the retry budget of 30
\* seconds is not used up and the context is not cancelled, returns the
\* message of the first attempt that succeeds and else an error; once the
\* context is cancelled at most one more attempt is started, and it is
\* followed by the return of the error
C30_Retries == []C30_Bounded /\ [][C30_Step]_vars /\ <>(retry.pc = "returned")

\* the context was cancelled when the timer of the first retry had fired:
\* the second attempt was made with the cancelled context and NewMessage
\* has returned the error
C30_Witness ==
    /\ retry.pc = "returned"
    /\ retry.attempts = 2
    /\ retry.late = 1
    /\ retry.cancelled
    /\ ~retry.message
    /\ retry.err = "new message with retries: context canceled"

(***************************************************************************)
(* Properties of one agent with a session file (SpecSession).              *)
(***************************************************************************)
\* the last message of the history
LastMessage == history[Len(history)]

\* C32: whenever the engine is in a provider call, the history it passed is
\* not empty and its last message has role user: it is the prompt of Run,
\* or a reminder (timebox, FinalResult), or the tool-result message of the
\* turn before; this for an agent that started from an empty history, from
\* the history passed in, or from the history restored from its session
C32_LastIsUser ==
    pc = "NewMessage" =>
        /\ Len(history) > 0
        /\ LastMessage.Role = RoleUser
        /\ \/ LastMessage = NewUserMessage(<<TextContent("prompt")>>)
           \/ LastMessage \in {TimeboxReminder, FinalResultReminder}
           \/ IsToolResultMessage(LastMessage)
        /\ turns = 1 => LastMessage \in {NewUserMessage(<<TextContent("prompt")>>), TimeboxReminder}
        /\ turns > 1 => LastMessage # NewUserMessage(<<TextContent("prompt")>>)

\* an agent that restored the session of another run is in its second
\* provider call, after a turn without tool calls: the history it passed is
\* the restored session, the prompt, the assistant message and the reminder
\* to call FinalResult
C32_Witness ==
    /\ pc = "NewMessage"
    /\ turns = 2
    /\ params.SessionFilePath # ""
    /\ file.exists
    /\ Len(history) = Len(OtherSession) + 3
    /\ SubSeq(history, 1, Len(OtherSession)) = OtherSession
    /\ history[Len(history) - 1].Role = RoleAssistant
    /\ LastMessage = FinalResultReminder

\* C19: when NewAgent restores the session, with an empty session path it
\* returns the agent with the history passed in whatever the file is; with
\* a session path and no file it returns the agent with the history passed
\* in; with a file that cannot be opened or holds no gob stream it returns
\* an error and no agent
C19_Step ==
    ( pc = "NewAgent" /\ pc' # "NewAgent" ) =>
        /\ params.SessionFilePath = "" =>
               /\ pc' = "Run"
               /\ \E uuid \in Uuids : agent' = NewAgentBusts(NewAgent(params, CounterBefore(params)), uuid)
        /\ ( params.SessionFilePath # "" /\ ~file.exists ) =>
               /\ pc' = "Run"
               /\ \E uuid \in Uuids : agent' = NewAgentBusts(NewAgent(params, CounterBefore(params)), uuid)
               /\ SubSeq(agent'.llmMessages, 1, Len(params.LLMMessages)) = params.LLMMessages
               /\ Len(agent'.llmMessages)
                      = Len(params.LLMMessages) + (IF params.CacheBust THEN 1 ELSE 0)
        /\ ( params.SessionFilePath # "" /\ file.exists /\ (~file.readable \/ ~file.gob) ) =>
               /\ pc' = "failed"
               /\ agent' \in { NilAgent("restore session: open file"),
                                NilAgent("restore session: gob decode") }
        /\ file' = file

C19_RestoreAtConstruction == [][C19_Step]_vars

\* NewAgent has failed on a session file that holds no gob stream
C19_Witness ==
    /\ pc = "failed"
    /\ params.SessionFilePath # ""
    /\ file.exists /\ file.readable /\ ~file.gob
    /\ agent = NilAgent("restore session: gob decode")

\* C22: at every provider call of a run that was given the messages of a
\* previous RunMeta, the history starts with those messages in their order,
\* also when the session path names an existing session file
C22_ContinuesPrevious ==
    ( pc = "NewMessage" /\ params.LLMMessages # <<>> ) =>
        /\ Len(history) >= Len(params.LLMMessages)
        /\ SubSeq(history, 1, Len(params.LLMMessages)) = params.LLMMessages

\* C20: with a session path, every step in which Run returns (a result, the
\* provider's error, the budget's error) saves the session: where the file
\* may be created it exists afterwards and, unless the write failed, holds
\* the whole history of the returning agent; where it may not, the file is
\* as it was; and what Run returns is the result when the final result is
\* set and the error of the turn otherwise, whatever the save did
C20_Step ==
    ( ~ret.returned /\ ret'.returned /\ params.SessionFilePath # "" ) =>
        /\ IF file.writable
           THEN /\ file'.exists
                /\ file'.gob =>
                       /\ gobDecode(file', <<>>).ok
                       /\ gobDecode(file', <<>>).messages = agent'.llmMessages
           ELSE file' = file
        /\ IF agent'.finalResultSet
           THEN ret' = RunResult(agent')
           ELSE ret' \in {RunError(ErrProvider), RunError(ErrBudget)}

C20_SavedOnEveryReturn == [][C20_Step]_vars

\* Run has returned the budget error and the file, which did not exist,
\* holds the history up to the assistant message that exceeded the ceiling
C20_Witness ==
    /\ pc = "returned"
    /\ ret.err = ErrBudget
    /\ params.SessionFilePath # ""
    /\ params.LLMMessages = <<>>
    /\ file.gob
    /\ Len(file.stream) = Len(agent.llmMessages)
    /\ Len(file.stream) > 1
    /\ agent.llmMessages[Len(agent.llmMessages)].Role = RoleAssistant

====
